---------------------------- MODULE Spec2Model ----------------------------
(***************************************************************************)
(* The hybrid retrieval engine of error-classifier-ml:                     *)
(*   core/src/search_engines/hybrid_custom_search.py  (the engine)         *)
(*   core/src/algorithms/feedback_loop.py             (the feedback loop)  *)
(*   core/src/algorithms/mongo_feedback_database.py   (its store)          *)
(*   core/src/cache/redis_cache.py                    (the hot-query cache)*)
(*   core/src/custom_ml/{tfidf,similarity}.py, core/src/algorithms/bm25.py *)
(*                                                                         *)
(* Numbers.  Python floats are modelled in fixed point:                    *)
(*   confidences       in 1/1000 of a point      (100.0  -> 100000)        *)
(*   rates, accuracies in 1/10000                (0.5    -> 5000)          *)
(*   tf-idf and BM25 weights of the learned examples in 1/1000             *)
(* A text is the sequence of the chunks that text.split(" ") yields, so an *)
(* empty chunk stands for an extra blank.                                  *)
(***************************************************************************)
EXTENDS Integers, Sequences, FiniteSets, TLC

VARIABLES
    corpus,     \* the indexed corpus, seen through the scores it gives
    disk,       \* version of the documentation files on disk
    eng,        \* the two engines (cache enabled / disabled), in lockstep
    now,        \* number of steps taken so far
    last,       \* the last operation and what it returned
    taught,     \* per (normalised query, doc): completed teach calls
    taughtAt,   \* per normalised query: step and doc of the latest teach
    loop,       \* a stand-alone FeedbackLoop, driven directly
    loopLast,   \* the last operation on the stand-alone loop
    fuseIn,     \* score vectors handed to the fresh-scoring function
    fuseOut,    \* what the fresh-scoring function returned for them
    conc,       \* teach calls running concurrently on one engine
    ix,         \* files, vector store and index of an engine that indexes
    redis       \* a stand-alone RedisCache and the server behind it

vars == <<corpus, disk, eng, now, last, taught, taughtAt, loop, loopLast,
          fuseIn, fuseOut, conc, ix, redis>>

---------------------------------------------------------------------------
(* Bounds of the model *)

\* steps (classify, teach, expiry, document change, restart) per behaviour
MaxCalls == 3
\* document changes on disk per behaviour
MaxDiskChanges == 1
\* operations on the stand-alone feedback loop per behaviour
MaxLoopOps == 3
\* highest raw score on the score grid of the fresh-scoring function
MaxScore == 2
\* documents scored by the fresh-scoring function
FuseDocs == 3

---------------------------------------------------------------------------
(* Units and small helpers *)

ConfUnit == 10 * 10 * 10
RateUnit == 10 * ConfUnit
WUnit == ConfUnit

Min(a, b) == IF a <= b THEN a ELSE b
Max(a, b) == IF a >= b THEN a ELSE b

None == "None"

\* the function f as a table: TLC keeps [x \in S |-> e] as an expression and
\* evaluates e anew at each application
Table(f) == f @@ <<>>

RECURSIVE SumSeq(_)
SumSeq(s) == IF s = <<>> THEN 0 ELSE Head(s) + SumSeq(Tail(s))

RECURSIVE MaxSeq(_)
MaxSeq(s) == IF Len(s) = 1 THEN s[1] ELSE Max(Head(s), MaxSeq(Tail(s)))

RECURSIVE MinSeq(_)
MinSeq(s) == IF Len(s) = 1 THEN s[1] ELSE Min(Head(s), MinSeq(Tail(s)))

RECURSIVE SqrtIter(_, _)
SqrtIter(n, x) ==
    LET y == (x + n \div x) \div 2
    IN  IF y >= x THEN x ELSE SqrtIter(n, y)

\* floor of the square root
ISqrt(n) == IF n <= 0 THEN 0 ELSE SqrtIter(n, n)

RECURSIVE AtanhSeries(_, _, _, _)
AtanhSeries(power, ysq, k, acc) ==
    IF power = 0 \/ k > 40 THEN acc
    ELSE AtanhSeries((power * ysq) \div RateUnit, ysq, k + 2,
                     acc + power \div k)

\* ln(num / den) in 1/10000, for num >= den > 0:  2 * atanh((x-1)/(x+1))
Ln(num, den) ==
    LET y == ((num - den) * RateUnit) \div (num + den)
        ysq == (y * y) \div RateUnit
    IN  2 * AtanhSeries(y, ysq, 1, 0)

---------------------------------------------------------------------------
(* Texts *)

Docs == {"d1", "d2"}
\* self.doc_paths: the indexed documents in index order
DocPaths == <<"d1", "d2">>

\* "Schema  now" , "now schema" , " "
qA == <<"Schema", "", "now">>
qC == <<"now", "schema">>
qE == <<"", "">>
RawQueries == {qA, qC, qE}

\* str.lower on the chunks of the model
Lower(c) == IF c = "Schema" THEN "schema" ELSE c

LowerSeq(q) == Table([i \in 1..Len(q) |-> Lower(q[i])])

IsWord(c) == c # ""

\* str.split(): the non-empty chunks
Split(q) == SelectSeq(q, IsWord)

\* FeedbackLoop._normalize_query: ' '.join(query.lower().split())
NormalizeQuery(q) == Split(LowerSeq(q))

\* RedisCache._generate_key: the key hashes the normalised query and the
\* method; the 16 hex digits of the SHA-256 are taken as injective
GenerateKey(q) == Split(LowerSeq(q))

NormQueries == {NormalizeQuery(q) : q \in RawQueries}

\* the members of ENGLISH_STOP_WORDS the model's texts could hold
ENGLISH_STOP_WORDS == {"the", "is", "a", "it"}

NotStopWord(w) == w \notin ENGLISH_STOP_WORDS

\* TfidfVectorizer._tokenize: lowercase, \b\w+\b, drop the stop words
TfidfTokenize(q) == SelectSeq(Split(LowerSeq(q)), NotStopWord)

\* TfidfVectorizer._generate_ngrams with ngram_range (1, 2)
GenerateNgrams(tokens) ==
    [i \in 1..Len(tokens) |-> <<tokens[i]>>] \o
    [i \in 1..(IF Len(tokens) = 0 THEN 0 ELSE Len(tokens) - 1) |->
        <<tokens[i], tokens[i + 1]>>]

\* BM25._tokenize: lowercase, , . ! ? become blanks, split
Bm25Tokenize(q) == Split(LowerSeq(q))

SeqToSet(s) == {s[i] : i \in 1..Len(s)}

CountIn(x, s) == Cardinality({i \in 1..Len(s) : s[i] = x})


RECURSIVE SumOver(_, _)
SumOver(f, S) ==
    IF S = {} THEN 0
    ELSE LET x == CHOOSE y \in S : TRUE
         IN  f[x] + SumOver(f, S \ {x})

---------------------------------------------------------------------------
(* The learned examples: a TF-IDF vectoriser and a BM25 ranker fitted on   *)
(* the taught texts (feedback_documents)                                   *)

\* the n-grams of one text
DocTerms(text) == GenerateNgrams(TfidfTokenize(text))

\* TfidfVectorizer._build_vocabulary with min_df = 1, max_df = 1.0: every
\* term of every document (max_features = 5000 is never reached)
BuildVocabulary(docs) ==
    UNION {SeqToSet(DocTerms(docs[i])) : i \in 1..Len(docs)}

DocFreq(term, docs) ==
    Cardinality({i \in 1..Len(docs) : term \in SeqToSet(DocTerms(docs[i]))})

\* TfidfVectorizer._calculate_idf: ln(n_docs / df) + 1, in 1/1000
CalculateIdf(term, docs) ==
    Ln(Len(docs), DocFreq(term, docs)) \div 10 + WUnit

\* the L2 norm of a vector over a vocabulary
Norm(v) ==
    LET squares == Table([t \in DOMAIN v |-> v[t] * v[t]])
    IN  ISqrt(SumOver(squares, DOMAIN v))

\* v / norm, a zero norm replaced by 1
Normalized(v) ==
    LET n == Norm(v)
    IN  Table([t \in DOMAIN v |->
                  IF n = 0 THEN v[t] ELSE (v[t] * WUnit) \div n])

\* TfidfVectorizer.transform of one text, the vectoriser fitted on docs:
\* tf * idf per vocabulary term, then L2 normalisation
Transform(text, docs) ==
    LET terms == DocTerms(text)
        total == Len(terms)
        tfidf == Table([t \in BuildVocabulary(docs) |->
                     IF total = 0 THEN 0
                     ELSE (CountIn(t, terms) * CalculateIdf(t, docs)) \div total])
    IN  Normalized(tfidf)

\* SimilaritySearch.cosine_similarity of a query vector and one row
CosineSimilarity(qv, dv) ==
    IF Norm(qv) = 0 THEN 0
    ELSE LET qh == Normalized(qv)
             dh == Normalized(dv)
             products == Table([t \in DOMAIN qv |-> qh[t] * dh[t]])
         IN  SumOver(products, DOMAIN qv) \div WUnit

\* np.argsort(scores)[::-1]: descending scores; the sort of a short array is
\* stable, so of equal scores the higher index comes first
RECURSIVE ArgsortDescOf(_, _)
ArgsortDescOf(scores, left) ==
    IF left = {} THEN <<>>
    ELSE LET best == CHOOSE i \in left :
                        \A j \in left : \/ scores[i] > scores[j]
                                        \/ scores[i] = scores[j] /\ i >= j
         IN  <<best>> \o ArgsortDescOf(scores, left \ {best})

ArgsortDesc(scores) == ArgsortDescOf(scores, 1..Len(scores))

\* SimilaritySearch.search with the cosine metric: the k best rows as
\* (index, score), best first
Search(scores, k) ==
    LET order == ArgsortDesc(scores)
    IN  Table([r \in 1..Min(k, Len(scores)) |->
                  [idx |-> order[r], score |-> scores[order[r]]]])

K1x10 == 15
Bx100 == 75
EpsilonX1000 == 250

\* BM25._calculate_idf: max(ln((N - n + 0.5) / (n + 0.5) + 1), epsilon)
Bm25Idf(term, fitted) ==
    LET N == Len(fitted)
        n == Cardinality({i \in 1..N : term \in SeqToSet(Bm25Tokenize(fitted[i]))})
    IN  Max(Ln(2 * N + 2, 2 * n + 1) \div 10, EpsilonX1000)

\* BM25._score_document, in 1/1000
RECURSIVE ScoreDocument(_, _, _)
ScoreDocument(qtokens, i, fitted) ==
    IF qtokens = <<>> THEN 0
    ELSE LET term == Head(qtokens)
             doc == Bm25Tokenize(fitted[i])
             f == CountIn(term, doc)
             doc_len == Table([j \in 1..Len(fitted) |->
                                   Len(Bm25Tokenize(fitted[j]))])
             sumlen == SumSeq(doc_len)
             den == 1000 * f + K1x10 * (100 - Bx100)
                    + (K1x10 * Bx100 * Len(doc) * Len(fitted)) \div sumlen
             rest == ScoreDocument(Tail(qtokens), i, fitted)
         IN  IF f = 0 THEN rest
             ELSE (Bm25Idf(term, fitted) * f * (K1x10 + 10) * 100) \div den + rest

\* BM25.get_scores: one score per fitted document
GetScores(q, fitted) ==
    LET query_tokens == Bm25Tokenize(q)
    IN  Table([i \in 1..Len(fitted) |->
                  ScoreDocument(query_tokens, i, fitted)])

---------------------------------------------------------------------------
(* Python values handed to the store: a string is its chunks *)

PyStr(x) == [t |-> "str", s |-> x, n |-> 0]
PyNum(x) == [t |-> "num", s |-> <<>>, n |-> x]
PyBool(b) == [t |-> "bool", s |-> <<>>, n |-> IF b THEN 1 ELSE 0]
PyNone == [t |-> "none", s |-> <<>>, n |-> 0]

\* the truth value Python gives an object in a condition
Truthy(x) ==
    CASE x.t = "str" -> x.s \notin {<<>>, <<"">>}
      [] x.t = "none" -> FALSE
      [] OTHER -> x.n # 0

\* float(x) of a number or a bool, in the unit of the number
PyFloat(x) == PyNum(x.n)

---------------------------------------------------------------------------
(* MongoFeedbackDatabase: each collection is the set of its documents,     *)
(* corrections in insertion order                                          *)

InitDb ==
    [corrections |-> <<>>, query_doc_stats |-> {}, engine_stats |-> {},
     document_stats |-> {}, query_patterns |-> {}]

\* MongoFeedbackDatabase._update_query_doc_stats; success_rate in 1/10000
UpdateQueryDocStats(col, query_normalized, doc_path, is_correct) ==
    LET hit == IF Truthy(is_correct) THEN 1 ELSE 0
        found == {x \in col : x.query_normalized = query_normalized
                              /\ x.doc_path = doc_path}
    IN  IF found # {}
        THEN LET stats == CHOOSE x \in found : TRUE
                 correct == stats.correct_count + hit
                 total == stats.total_count + 1
             IN  (col \ {stats}) \cup
                 {[stats EXCEPT !.correct_count = correct,
                                !.incorrect_count = @ + (1 - hit),
                                !.total_count = total,
                                !.success_rate = (correct * RateUnit) \div total]}
        ELSE col \cup
             {[query_normalized |-> query_normalized, doc_path |-> doc_path,
               correct_count |-> hit, incorrect_count |-> 1 - hit,
               total_count |-> 1, success_rate |-> hit * RateUnit]}

\* MongoFeedbackDatabase._update_engine_stats
UpdateEngineStats(col, engine, is_correct) ==
    LET hit == IF Truthy(is_correct) THEN 1 ELSE 0
        found == {x \in col : x.engine = engine}
    IN  IF found # {}
        THEN LET stats == CHOOSE x \in found : TRUE
                 total == stats.total_predictions + 1
                 correct == stats.correct_predictions + hit
             IN  (col \ {stats}) \cup
                 {[stats EXCEPT !.total_predictions = total,
                                !.correct_predictions = correct,
                                !.incorrect_predictions = @ + (1 - hit),
                                !.accuracy = (correct * RateUnit) \div total]}
        ELSE col \cup
             {[engine |-> engine, total_predictions |-> 1,
               correct_predictions |-> hit, incorrect_predictions |-> 1 - hit,
               accuracy |-> hit * RateUnit, weight |-> RateUnit]}

\* MongoFeedbackDatabase._update_document_stats
UpdateDocumentStats(col, doc_path, shown, is_correct) ==
    LET s1 == IF shown THEN 1 ELSE 0
        c1 == IF is_correct THEN 1 ELSE 0
        found == {x \in col : x.doc_path = doc_path}
    IN  IF found # {}
        THEN LET stats == CHOOSE x \in found : TRUE
                 times_shown == stats.times_shown + s1
                 times_correct == stats.times_correct + c1
             IN  (col \ {stats}) \cup
                 {[stats EXCEPT !.times_shown = times_shown,
                                !.times_correct = times_correct,
                                !.accuracy =
                                    IF times_shown > 0
                                    THEN (times_correct * RateUnit) \div times_shown
                                    ELSE RateUnit \div 2]}
        ELSE col \cup
             {[doc_path |-> doc_path, times_shown |-> s1, times_correct |-> c1,
               accuracy |-> IF is_correct THEN RateUnit ELSE RateUnit \div 2]}

\* MongoFeedbackDatabase._update_query_patterns; corrections already holds
\* the correction being recorded
UpdateQueryPatterns(col, corrections, query_normalized, doc_path) ==
    LET found == {x \in col : x.query_normalized = query_normalized}
    IN  IF found # {}
        THEN LET pattern == CHOOSE x \in found : TRUE
                 total == pattern.total_count + 1
                 doc_count == Cardinality({i \in 1..Len(corrections) :
                     /\ corrections[i].query_normalized = query_normalized
                     /\ corrections[i].actual_doc = doc_path})
             IN  IF pattern.best_doc = doc_path
                 THEN (col \ {pattern}) \cup
                      {[pattern EXCEPT !.best_doc_count = @ + 1,
                                       !.total_count = total]}
                 ELSE IF doc_count > pattern.best_doc_count
                 THEN (col \ {pattern}) \cup
                      {[pattern EXCEPT !.best_doc = doc_path,
                                       !.best_doc_count = doc_count,
                                       !.total_count = total]}
                 ELSE (col \ {pattern}) \cup
                      {[pattern EXCEPT !.total_count = total]}
        ELSE col \cup
             {[query_normalized |-> query_normalized, best_doc |-> doc_path,
               best_doc_count |-> 1, total_count |-> 1]}

\* positional parameters, after self, of MongoFeedbackDatabase.record_prediction
\* and record_correction
MongoRecordPredictionParams == 5
MongoRecordCorrectionParams == 7

\* MongoFeedbackDatabase.record_correction, called with the positional
\* arguments args: the i-th argument is bound to the i-th parameter
MongoRecordCorrection(db, args) ==
    LET query == args[1]
        predicted_doc == args[2]
        actual_doc == args[3]
        is_correct == args[4]
        original_confidence == args[5]
        engine == args[6]
        prediction_id == IF Len(args) >= 7 THEN args[7] ELSE PyNone
        query_normalized == NormalizeQuery(query.s)
        corrections == Append(db.corrections,
            [prediction_id |-> prediction_id, query |-> query,
             query_normalized |-> query_normalized,
             predicted_doc |-> predicted_doc, actual_doc |-> actual_doc,
             is_correct |-> is_correct,
             original_confidence |-> PyFloat(original_confidence),
             engine |-> engine])
        shown == UpdateDocumentStats(db.document_stats, actual_doc, TRUE, FALSE)
    IN  [corrections |-> corrections,
         query_doc_stats |-> UpdateQueryDocStats(db.query_doc_stats,
                                 query_normalized, actual_doc, is_correct),
         engine_stats |-> UpdateEngineStats(db.engine_stats, engine, is_correct),
         document_stats |->
             IF Truthy(is_correct)
             THEN UpdateDocumentStats(shown, actual_doc, TRUE, TRUE)
             ELSE shown,
         query_patterns |-> UpdateQueryPatterns(db.query_patterns, corrections,
                                query_normalized, actual_doc)]

\* MongoFeedbackDatabase.get_best_document_for_query: (best_doc, best_doc_count)
MongoGetBestDocumentForQuery(db, query) ==
    LET found == {x \in db.query_patterns :
                     x.query_normalized = NormalizeQuery(query)
                     /\ Truthy(x.best_doc)}
    IN  IF found = {} THEN [found |-> FALSE, doc |-> PyNone, count |-> 0]
        ELSE LET pattern == CHOOSE x \in found : TRUE
             IN  [found |-> TRUE, doc |-> pattern.best_doc,
                  count |-> pattern.best_doc_count]

---------------------------------------------------------------------------
(* FeedbackLoop *)

HYBRID_CUSTOM == <<"HYBRID_CUSTOM">>

LearningRateX10 == 1
ConfidenceBoost == 5
ConfidencePenalty == 10

QDKeys == NormQueries \X Docs

\* FeedbackLoop.__init__: the defaults of the four defaultdicts
InitLoop(use_database) ==
    [use_database |-> use_database,
     db |-> InitDb,
     query_doc_stats |-> [k \in QDKeys |->
         [correct |-> 0, incorrect |-> 0, total |-> 0,
          success_rate |-> RateUnit \div 2]],
     doc_stats |-> [d \in Docs |->
         [times_shown |-> 0, times_correct |-> 0, accuracy |-> RateUnit \div 2]],
     query_patterns |-> [nq \in NormQueries |->
         [count |-> 0, avg_confidence |-> 0, best_doc |-> None,
          best_doc_count |-> 0]],
     \* the keys of query_patterns in insertion order
     pattern_keys |-> <<>>,
     engine_stats |->
         [predictions |-> 0, correct |-> 0, incorrect |-> 0,
          accuracy |-> RateUnit \div 2, weight |-> RateUnit],
     feedback_history |-> <<>>]

\* a key is entered in query_patterns the first time it is looked up
Touch(keys, nq) == IF nq \in SeqToSet(keys) THEN keys ELSE Append(keys, nq)

\* FeedbackLoop._compute_query_similarity: Jaccard on the word sets, 1/10000
ComputeQuerySimilarity(query1, query2) ==
    LET words1 == SeqToSet(Split(LowerSeq(query1)))
        words2 == SeqToSet(Split(LowerSeq(query2)))
    IN  IF words1 = {} \/ words2 = {} THEN 0
        ELSE (Cardinality(words1 \cap words2) * RateUnit)
                 \div Cardinality(words1 \cup words2)

\* a record_prediction that leaves the total of the (query, doc) pair alone
RecordPredictionUncounted(fl, query, predicted_doc, confidence) ==
    LET normalized_query == NormalizeQuery(query)
        pattern == fl.query_patterns[normalized_query]
    IN  IF fl.use_database THEN [ok |-> FALSE, fl |-> fl]
        ELSE [ok |-> TRUE,
              fl |-> [fl EXCEPT
                  !.doc_stats[predicted_doc].times_shown = @ + 1,
                  !.engine_stats.predictions = @ + 1,
                  !.pattern_keys = Touch(@, normalized_query),
                  !.query_patterns[normalized_query] =
                      [pattern EXCEPT
                          !.count = @ + 1,
                          !.avg_confidence =
                              (@ * pattern.count + confidence)
                                  \div (pattern.count + 1)]]]

\* FeedbackLoop.record_prediction; ok is FALSE when the call raises
RecordPrediction(fl, query, predicted_doc, confidence) ==
    LET normalized_query == NormalizeQuery(query)
        args == <<PyStr(query), PyStr(normalized_query), PyStr(<<predicted_doc>>),
                  PyNum(confidence), PyNum(confidence), PyStr(HYBRID_CUSTOM)>>
        key == <<normalized_query, predicted_doc>>
        pattern == fl.query_patterns[normalized_query]
    IN  IF fl.use_database /\ Len(args) > MongoRecordPredictionParams
        THEN [ok |-> FALSE, fl |-> fl]
        ELSE [ok |-> TRUE,
              fl |-> [fl EXCEPT
                  !.query_doc_stats[key].total = @ + 1,
                  !.doc_stats[predicted_doc].times_shown = @ + 1,
                  !.engine_stats.predictions = @ + 1,
                  !.pattern_keys = Touch(@, normalized_query),
                  !.query_patterns[normalized_query] =
                      [pattern EXCEPT
                          !.count = @ + 1,
                          !.avg_confidence =
                              (@ * pattern.count + confidence)
                                  \div (pattern.count + 1)]]]

\* the UCB-like exploration bonus sqrt(2 ln(total + 1) / (total + 1))
ExplorationBonus(total) ==
    ISqrt(((2 * Ln(total + 1, 1)) \div (total + 1)) * RateUnit)

\* a pattern update that also counts a wrong prediction against best_doc
UpdatedPatternForgetting(pattern, is_correct, actual_doc) ==
    IF ~is_correct THEN [pattern EXCEPT !.best_doc_count = Max(0, @ - 1)]
    ELSE IF pattern.best_doc = actual_doc
    THEN [pattern EXCEPT !.best_doc_count = @ + 1]
    ELSE IF pattern.best_doc = None \/ pattern.best_doc_count = 0
    THEN [pattern EXCEPT !.best_doc = actual_doc, !.best_doc_count = 1]
    ELSE pattern

\* FeedbackLoop.record_feedback, "Update query patterns": only a correct
\* prediction touches the pattern of the query
UpdatedPattern(pattern, is_correct, actual_doc) ==
    IF ~is_correct THEN pattern
    ELSE IF pattern.best_doc = actual_doc
    THEN [pattern EXCEPT !.best_doc_count = @ + 1]
    ELSE IF pattern.best_doc = None \/ pattern.best_doc_count = 0
    THEN [pattern EXCEPT !.best_doc = actual_doc, !.best_doc_count = 1]
    ELSE pattern

\* FeedbackLoop.record_feedback.  store_raises: the store raises while the
\* correction is persisted.  ok is FALSE when the call raises
RecordFeedback(fl, query, predicted_doc, actual_doc, original_confidence, store_raises) ==
    LET normalized_query == NormalizeQuery(query)
        is_correct == (predicted_doc = actual_doc)
        hit == IF is_correct THEN 1 ELSE 0
        args == <<PyStr(query), PyStr(normalized_query), PyStr(<<predicted_doc>>),
                  PyStr(<<actual_doc>>), PyBool(is_correct),
                  PyNum(original_confidence), PyStr(HYBRID_CUSTOM)>>
        db == IF fl.use_database THEN MongoRecordCorrection(fl.db, args)
              ELSE fl.db
        key == <<normalized_query, predicted_doc>>
        stats == fl.query_doc_stats[key]
        success_rate == (LearningRateX10 * hit * RateUnit
                         + (10 - LearningRateX10) * stats.success_rate) \div 10
        doc_stat == fl.doc_stats[predicted_doc]
        times_correct == doc_stat.times_correct + hit
        correct == fl.engine_stats.correct + hit
        incorrect == fl.engine_stats.incorrect + (1 - hit)
        total == correct + incorrect
        accuracy == (correct * RateUnit) \div total
        pattern == fl.query_patterns[normalized_query]
    IN  IF fl.use_database
           /\ (store_raises \/ Len(args) > MongoRecordCorrectionParams)
        THEN [ok |-> FALSE, fl |-> fl]
        ELSE [ok |-> TRUE,
              fl |-> [fl EXCEPT
                  !.db = db,
                  !.query_doc_stats[key] =
                      [stats EXCEPT !.correct = @ + hit,
                                    !.incorrect = @ + (1 - hit),
                                    !.success_rate = success_rate],
                  !.doc_stats[predicted_doc] =
                      [doc_stat EXCEPT
                          !.times_correct = times_correct,
                          !.accuracy =
                              IF doc_stat.times_shown > 0
                              THEN (times_correct * RateUnit)
                                       \div doc_stat.times_shown
                              ELSE @],
                  !.engine_stats =
                      [@ EXCEPT !.correct = correct,
                                !.incorrect = incorrect,
                                !.accuracy = accuracy,
                                !.weight = accuracy + ExplorationBonus(total)],
                  !.pattern_keys =
                      IF is_correct THEN Touch(@, normalized_query) ELSE @,
                  !.query_patterns[normalized_query] =
                      UpdatedPattern(pattern, is_correct, actual_doc),
                  !.feedback_history = Append(@,
                      [query |-> query, predicted_doc |-> predicted_doc,
                       actual_doc |-> actual_doc, is_correct |-> is_correct,
                       original_confidence |-> original_confidence,
                       success_rate |-> success_rate])]]

\* FeedbackLoop._get_similar_query_boost, in 1/1000 of a point
GetSimilarQueryBoost(fl, query, doc) ==
    LET sims == {ComputeQuerySimilarity(query, pq) :
                    pq \in {k \in SeqToSet(fl.pattern_keys) :
                               /\ fl.query_patterns[k].best_doc = doc
                               /\ fl.query_patterns[k].best_doc_count >= 2}}
        max_similarity ==
            IF sims = {} THEN 0 ELSE CHOOSE x \in sims : \A y \in sims : x >= y
    IN  IF max_similarity > RateUnit \div 2
        THEN max_similarity - RateUnit \div 2
        ELSE 0

\* the sum of the adjustments of adjust_confidence before the clamp
Adjusted(fl, query, doc, original_confidence) ==
    LET normalized_query == NormalizeQuery(query)
        pydoc == PyStr(<<doc>>)
        qdFound == {x \in fl.db.query_doc_stats :
                       x.query_normalized = normalized_query
                       /\ x.doc_path = pydoc}
        docFound == {x \in fl.db.document_stats : x.doc_path = pydoc}
        engFound == {x \in fl.db.engine_stats : x.engine = PyStr(HYBRID_CUSTOM)}
        stats == fl.query_doc_stats[<<normalized_query, doc>>]
        \* [has, rate]: whether a success rate applies, and the rate
        qd == IF fl.use_database
              THEN IF qdFound = {} THEN [has |-> FALSE, rate |-> 0]
                   ELSE LET x == CHOOSE y \in qdFound : TRUE
                        IN  [has |-> x.total_count > 0, rate |-> x.success_rate]
              ELSE [has |-> stats.total > 0, rate |-> stats.success_rate]
        ds == IF fl.use_database
              THEN IF docFound = {} THEN [has |-> FALSE, rate |-> 0]
                   ELSE LET x == CHOOSE y \in docFound : TRUE
                        IN  [has |-> x.times_shown >= 3, rate |-> x.accuracy]
              ELSE [has |-> fl.doc_stats[doc].times_shown >= 3,
                    rate |-> fl.doc_stats[doc].accuracy]
        es == IF fl.use_database
              THEN IF engFound = {} THEN [has |-> FALSE, rate |-> 0]
                   ELSE LET x == CHOOSE y \in engFound : TRUE
                        IN  [has |-> x.total_predictions >= 5,
                             rate |-> x.accuracy]
              ELSE [has |-> fl.engine_stats.predictions >= 5,
                    rate |-> fl.engine_stats.accuracy]
        a1 == IF qd.has /\ qd.rate > (7 * RateUnit) \div 10
              THEN original_confidence
                   + (ConfidenceBoost * (qd.rate - RateUnit \div 2)) \div 10
              ELSE IF qd.has /\ qd.rate < (3 * RateUnit) \div 10
              THEN original_confidence
                   - (ConfidencePenalty * (RateUnit \div 2 - qd.rate)) \div 10
              ELSE original_confidence
        a2 == IF ds.has THEN a1 + (ds.rate - RateUnit \div 2) \div 2 ELSE a1
        a3 == IF es.has
              THEN (a2 * ((8 * RateUnit) \div 10 + (4 * es.rate) \div 10))
                       \div RateUnit
              ELSE a2
    IN  a3 + GetSimilarQueryBoost(fl, normalized_query, doc)

\* max(0.0, min(100.0, adjusted))
Clamp(adjusted) == Max(0, Min(100 * ConfUnit, adjusted))

\* FeedbackLoop.adjust_confidence
AdjustConfidence(fl, query, doc, original_confidence) ==
    Clamp(Adjusted(fl, query, doc, original_confidence))

\* the loop over query_patterns.items() in get_best_document_for_query:
\* best is [doc, score], the score in 1/10000
RECURSIVE SimilarBest(_, _, _, _)
SimilarBest(fl, query, keys, best) ==
    IF keys = <<>> THEN best
    ELSE LET pattern_data == fl.query_patterns[Head(keys)]
             similarity == ComputeQuerySimilarity(query, Head(keys))
             score == similarity * pattern_data.best_doc_count
             better == IF /\ pattern_data.best_doc # None
                          /\ pattern_data.best_doc_count >= 2
                          /\ score > best.score
                          /\ similarity > (6 * RateUnit) \div 10
                       THEN [doc |-> pattern_data.best_doc, score |-> score]
                       ELSE best
             rest == Tail(keys)
         IN  SimilarBest(fl, query, rest, better)

\* the exact-pattern confidence without the cap of min(5.0, count)
ExactConfidenceUncapped(best_doc_count) ==
    95 * ConfUnit + 5 * best_doc_count * ConfUnit

\* the confidence of the exact-pattern shortcut: 95.0 + min(5.0, count)
ExactConfidence(best_doc_count) ==
    95 * ConfUnit + Min(5, best_doc_count) * ConfUnit

\* FeedbackLoop.get_best_document_for_query: the store first, then the exact
\* pattern, then the similar patterns.  via names the branch that answered
GetBestDocumentForQuery(fl, query) ==
    LET normalized_query == NormalizeQuery(query)
        result == MongoGetBestDocumentForQuery(fl.db, normalized_query)
        pattern == fl.query_patterns[normalized_query]
        nothing == [doc |-> None, score |-> 0]
        best == SimilarBest(fl, query, fl.pattern_keys, nothing)
    IN  IF fl.use_database /\ result.found
        THEN [found |-> TRUE, doc |-> result.doc.s[1],
              confidence |-> result.count * ConfUnit, via |-> "store"]
        ELSE IF /\ normalized_query \in SeqToSet(fl.pattern_keys)
                /\ pattern.best_doc # None
                /\ pattern.best_doc_count >= 2
        THEN [found |-> TRUE, doc |-> pattern.best_doc,
              confidence |-> ExactConfidence(pattern.best_doc_count),
              via |-> "exact"]
        ELSE IF best.doc # None
        THEN [found |-> TRUE, doc |-> best.doc,
              confidence |-> 80 * ConfUnit + Min(15 * ConfUnit, best.score \div 2),
              via |-> "similar"]
        ELSE [found |-> FALSE, doc |-> None, confidence |-> 0, via |-> "none"]

---------------------------------------------------------------------------
(* RedisCache: the entries under the prefix 'search'.  An entry also keeps *)
(* when and how it was computed, which the program does not store          *)

NoEntry == [present |-> FALSE, doc_path |-> None, confidence |-> 0,
            at |-> 0, via |-> "none", disk |-> 0]

InitCache(enabled) ==
    [enabled |-> enabled, cache_hits |-> 0, cache_misses |-> 0,
     entries |-> [k \in NormQueries |-> NoEntry]]

\* RedisCache.get: [cache, hit, value]
CacheGet(cache, query) ==
    LET key == GenerateKey(query)
    IN  IF ~cache.enabled
        THEN [cache |-> cache, hit |-> FALSE, value |-> NoEntry]
        ELSE IF cache.entries[key].present
        THEN [cache |-> [cache EXCEPT !.cache_hits = @ + 1],
              hit |-> TRUE, value |-> cache.entries[key]]
        ELSE [cache |-> [cache EXCEPT !.cache_misses = @ + 1],
              hit |-> FALSE, value |-> NoEntry]

\* RedisCache.set
CacheSet(cache, query, value) ==
    IF ~cache.enabled THEN cache
    ELSE [cache EXCEPT !.entries[GenerateKey(query)] = value]

\* RedisCache.delete(prefix): every key under the prefix
CacheDelete(cache) ==
    IF ~cache.enabled THEN cache
    ELSE [cache EXCEPT !.entries = [k \in NormQueries |-> NoEntry]]

\* RedisCache.invalidate_on_doc_change
InvalidateOnDocChange(cache) == CacheDelete(cache)

---------------------------------------------------------------------------
(* HybridCustomSearchEngine: scoring against the indexed corpus *)

TfidfWeightX10 == 4
Bm25WeightX10 == 6

\* HybridCustomSearchEngine._normalize_scores, to 1/10000
NormalizeScores(scores) ==
    IF Len(scores) = 0 THEN scores
    ELSE LET min_score == MinSeq(scores)
             max_score == MaxSeq(scores)
         IN  IF max_score - min_score = 0
             THEN Table([i \in 1..Len(scores) |-> RateUnit])
             ELSE Table([i \in 1..Len(scores) |->
                      ((scores[i] - min_score) * RateUnit)
                          \div (max_score - min_score)])

\* np.argmax: the first index holding the maximum
Argmax(scores) ==
    CHOOSE i \in 1..Len(scores) :
        /\ \A j \in 1..Len(scores) : scores[j] <= scores[i]
        /\ \A j \in 1..(i - 1) : scores[j] < scores[i]

\* the fresh scoring of find_relevant_doc: cosine the cosine similarities
\* and bm25 the BM25 scores of the documents, both in index order.  The
\* TF-IDF scores are taken from the search results, best first
CombinedScores(cosine, bm25) ==
    LET tfidf_results == Search(cosine, Len(cosine))
        tfidf_scores_array ==
            Table([r \in 1..Len(tfidf_results) |-> tfidf_results[r].score])
        tfidf_normalized == NormalizeScores(tfidf_scores_array)
        bm25_normalized == NormalizeScores(bm25)
    IN  Table([i \in 1..Len(bm25) |->
                  (TfidfWeightX10 * tfidf_normalized[i]
                   + Bm25WeightX10 * bm25_normalized[i])
                      \div (TfidfWeightX10 + Bm25WeightX10)])

\* best_idx and confidence = best_score * 100, in 1/1000 of a point
FreshScore(cosine, bm25) ==
    LET combined_scores == CombinedScores(cosine, bm25)
        best_idx == Argmax(combined_scores)
    IN  [best_idx |-> best_idx,
         confidence |-> (combined_scores[best_idx] * 100 * ConfUnit)
                            \div RateUnit]

\* The indexed corpus as the model sees it: how many documents it holds and
\* the scores it gives a query that has words.  The documents hold the words
\* of the queries and none of their bigrams, so all such queries score alike;
\* a query without tokens has a zero vector and no BM25 term
ScoreVectors == {<<1, 0>>, <<0, 1>>}
Contents ==
    {[ndocs |-> 0, cosine |-> <<>>, bm25 |-> <<>>],
     [ndocs |-> 1, cosine |-> <<1>>, bm25 |-> <<1>>]} \cup
    {[ndocs |-> 2, cosine |-> v, bm25 |-> v] : v \in ScoreVectors}

CosineOf(corp, query) ==
    IF TfidfTokenize(query) = <<>> THEN Table([i \in 1..corp.ndocs |-> 0])
    ELSE corp.cosine

Bm25Of(corp, query) ==
    IF Bm25Tokenize(query) = <<>> THEN Table([i \in 1..corp.ndocs |-> 0])
    ELSE corp.bm25

---------------------------------------------------------------------------
(* HybridCustomSearchEngine: the engine state and its two operations *)

InitEngine(cache_enabled, use_database) ==
    [cache |-> InitCache(cache_enabled),
     feedback_loop |-> InitLoop(use_database),
     feedback_documents |-> <<>>,
     feedback_paths |-> <<>>,
     \* how many of feedback_documents feedback_bm25 was last fitted on
     bm25_fitted |-> 0]

NotFound == [ok |-> TRUE, found |-> FALSE, doc |-> None, confidence |-> 0,
             via |-> "none"]

\* the old feedback system of _check_feedback (lines 461-489): top is the
\* best learned example by cosine similarity, bm25_scores the BM25 scores of
\* the learned examples the ranker was last fitted on
LegacyFeedback(e, top, bm25_scores) ==
    LET combined == (top.score
                     + (bm25_scores[top.idx] * WUnit)
                           \div Max(MaxSeq(bm25_scores), WUnit)) \div 2
    IN  IF Len(bm25_scores) >= top.idx /\ combined > (7 * WUnit) \div 10
        THEN [ok |-> TRUE, found |-> TRUE, doc |-> e.feedback_paths[top.idx],
              confidence |-> 95 * ConfUnit, via |-> "legacy"]
        ELSE NotFound

\* _check_feedback once the feedback loop has answered feedback_result
CheckLearned(e, query, feedback_result) ==
    LET docs == e.feedback_documents
        query_vector == Transform(query, docs)
        scores == Table([i \in 1..Len(docs) |->
                      CosineSimilarity(query_vector, Transform(docs[i], docs))])
        fitted == SubSeq(docs, 1, e.bm25_fitted)
    IN  IF feedback_result.found
        THEN [ok |-> TRUE, found |-> TRUE, doc |-> feedback_result.doc,
              confidence |-> feedback_result.confidence,
              via |-> feedback_result.via]
        ELSE IF docs = <<>> THEN NotFound
        ELSE IF BuildVocabulary(docs) = {} THEN [NotFound EXCEPT !.ok = FALSE]
        ELSE LegacyFeedback(e, Search(scores, 1)[1], GetScores(query, fitted))

\* HybridCustomSearchEngine._check_feedback; ok is FALSE when it raises
CheckFeedback(e, query) ==
    CheckLearned(e, query, GetBestDocumentForQuery(e.feedback_loop, query))

\* what a call of find_relevant_doc yields: the engine after it, whether it
\* returned (ok) or raised, the answer, and the return path taken
Raised(e) == [e |-> e, ok |-> FALSE, doc |-> None, confidence |-> 0,
              path |-> "raised"]

\* a tail that returns a cache hit at once, before the prediction is recorded
ReturningHitUnrecorded(e, query, doc, confidence, path) ==
    LET fl == e.feedback_loop
        rp == RecordPrediction(fl, query, doc, confidence)
    IN  IF path = "cache"
        THEN [e |-> e, ok |-> TRUE, doc |-> doc, confidence |-> confidence,
              path |-> path]
        ELSE IF rp.ok
        THEN [e |-> [e EXCEPT !.feedback_loop = rp.fl], ok |-> TRUE,
              doc |-> doc, confidence |-> confidence, path |-> path]
        ELSE Raised(e)

\* the tail shared by the three return paths: record the prediction, return
Returning(e, query, doc, confidence, path) ==
    LET fl == e.feedback_loop
        rp == RecordPrediction(fl, query, doc, confidence)
    IN  IF rp.ok
        THEN [e |-> [e EXCEPT !.feedback_loop = rp.fl], ok |-> TRUE,
              doc |-> doc, confidence |-> confidence, path |-> path]
        ELSE Raised(e)

\* cache.set of the answer, then the shared tail (lines 342-349, 390-400).
\* t is the moment of the call: the step, and the version of the files on disk
CacheAndReturn(e, query, doc, confidence, via, t) ==
    LET entry == [present |-> TRUE, doc_path |-> doc,
                  confidence |-> confidence, at |-> t.at, via |-> via,
                  disk |-> t.disk]
    IN  Returning([e EXCEPT !.cache = CacheSet(@, query, entry)], query, doc,
                  confidence, via)

\* the fresh scoring once the scores are fused (lines 380-400)
FreshAnswer(e, query, fresh, t) ==
    LET doc_path == DocPaths[fresh.best_idx]
    IN  CacheAndReturn(e, query, doc_path,
                       AdjustConfidence(e.feedback_loop, query, doc_path,
                                        fresh.confidence),
                       "fresh", t)

\* find_relevant_doc after the cache missed (lines 336-400)
AfterFeedback(e, corp, query, t, feedback_result) ==
    IF ~feedback_result.ok THEN Raised(e)
    ELSE IF feedback_result.found
    THEN CacheAndReturn(e, query, feedback_result.doc,
                        feedback_result.confidence, feedback_result.via, t)
    ELSE FreshAnswer(e, query,
                     FreshScore(CosineOf(corp, query), Bm25Of(corp, query)), t)

\* find_relevant_doc once the cache has answered got (lines 325-400)
AfterCache(e, corp, query, t, got) ==
    IF got.hit
    THEN Returning([e EXCEPT !.cache = got.cache], query, got.value.doc_path,
                   got.value.confidence, "cache")
    ELSE AfterFeedback([e EXCEPT !.cache = got.cache], corp, query, t,
                       CheckFeedback(e, query))

\* HybridCustomSearchEngine.find_relevant_doc against the index corp
FindRelevantDoc(e, corp, query, t) ==
    IF corp.ndocs = 0 THEN Raised(e)
    ELSE AfterCache(e, corp, query, t, CacheGet(e.cache, query))

\* teach_correction after record_feedback (lines 523-539): the example is
\* appended and the two learned models are fitted again
AfterRecordFeedback(r, rf, error_text, correct_doc_path) ==
    LET e1 == IF r.ok THEN [r.e EXCEPT !.feedback_loop = rf.fl] ELSE r.e
        e2 == [e1 EXCEPT !.feedback_documents = Append(@, error_text),
                         !.feedback_paths = Append(@, correct_doc_path)]
    IN  IF r.ok /\ ~rf.ok
        THEN [e |-> r.e, ok |-> FALSE, predicted |-> r.doc]
        ELSE IF BuildVocabulary(e2.feedback_documents) = {}
        THEN [e |-> e2, ok |-> FALSE, predicted |-> r.doc]
        ELSE [e |-> [e2 EXCEPT !.bm25_fitted = Len(e2.feedback_documents)],
              ok |-> TRUE, predicted |-> r.doc]

\* teach_correction after its own find_relevant_doc answered r (lines
\* 506-539); a prediction that raised is taken as None and not recorded
AfterPrediction(r, error_text, correct_doc_path) ==
    AfterRecordFeedback(r,
        RecordFeedback(r.e.feedback_loop, error_text, r.doc, correct_doc_path,
                       r.confidence, FALSE),
        error_text, correct_doc_path)

\* HybridCustomSearchEngine.teach_correction; ok is FALSE when it raises.
\* predicted is what its own find_relevant_doc answered
TeachCorrection(e, corp, error_text, correct_doc_path, t) ==
    AfterPrediction(FindRelevantDoc(e, corp, error_text, t), error_text,
                    correct_doc_path)

---------------------------------------------------------------------------
(* The engine under its callers.  Two engines, c with the cache enabled    *)
(* and n with it disabled, receive the same calls                          *)

Sides == {"c", "n"}

NoRes == [ok |-> FALSE, doc |-> None, confidence |-> 0, path |-> "none",
          entry |-> NoEntry]

Idle == [op |-> "none", query |-> <<>>, doc |-> None, c |-> NoRes, n |-> NoRes]

NeverTaught == [at |-> 0, doc |-> None]

\* the files on disk, or the index built from them
Files(version, content) ==
    [version |-> version, ndocs |-> content.ndocs, cosine |-> content.cosine,
     bm25 |-> content.bm25]

ContentOf(files) ==
    [ndocs |-> files.ndocs, cosine |-> files.cosine, bm25 |-> files.bm25]

\* FeedbackLoop._sync_from_database: engine statistics and history are
\* loaded from the store
SyncFromDatabase(fl) ==
    LET found == {x \in fl.db.engine_stats : x.engine = PyStr(HYBRID_CUSTOM)}
        stat == CHOOSE x \in found : TRUE
    IN  [fl EXCEPT
            !.engine_stats =
                IF ~fl.use_database \/ found = {} THEN @
                ELSE [predictions |-> stat.total_predictions,
                      correct |-> stat.correct_predictions,
                      incorrect |-> stat.incorrect_predictions,
                      accuracy |-> stat.accuracy, weight |-> stat.weight],
            !.feedback_history =
                IF ~fl.use_database THEN @
                ELSE [i \in 1..Len(fl.db.corrections) |->
                         [query |-> fl.db.corrections[i].query.s,
                          predicted_doc |-> fl.db.corrections[i].predicted_doc,
                          actual_doc |-> fl.db.corrections[i].actual_doc,
                          is_correct |-> Truthy(fl.db.corrections[i].is_correct),
                          original_confidence |->
                              fl.db.corrections[i].original_confidence.n,
                          success_rate |-> 0]]]

\* HybridCustomSearchEngine.__init__ on a store that holds db: the cache is
\* invalidated by _index_documents, the loop starts from its defaults
NewEngine(cache_enabled, use_database, db) ==
    LET e == InitEngine(cache_enabled, use_database)
    IN  [e EXCEPT !.cache = InvalidateOnDocChange(@),
                  !.feedback_loop = SyncFromDatabase([@ EXCEPT !.db = db])]

\* no teach call is running concurrently
NoTeach == [feedback_documents |-> <<>>, feedback_paths |-> <<>>, th |-> <<>>]

\* the indexing engine is not part of the behaviour
NoIndex == <<>>

\* the stand-alone cache is not part of the behaviour
NoCache == <<>>

Untouched == UNCHANGED <<loop, loopLast, fuseIn, fuseOut, conc, ix, redis>>

Init ==
    /\ \E content \in Contents, use_database \in BOOLEAN :
           /\ use_database => content.ndocs = 1
           /\ disk = Files(0, content)
           /\ corpus = Files(0, content)
           /\ eng = [c |-> NewEngine(TRUE, use_database, InitDb),
                     n |-> NewEngine(FALSE, use_database, InitDb)]
    /\ now = 0
    /\ last = Idle
    /\ taught = [k \in QDKeys |-> 0]
    /\ taughtAt = [nq \in NormQueries |-> NeverTaught]
    /\ loop = InitLoop(FALSE)
    /\ loopLast = [op |-> "none", n |-> 0]
    /\ fuseIn = <<>>
    /\ fuseOut = <<>>
    /\ conc = NoTeach
    /\ ix = NoIndex
    /\ redis = NoCache

\* what one side returned, with the cache entry it was served from
ResultOf(r, e, query) ==
    [ok |-> r.ok, doc |-> r.doc, confidence |-> r.confidence, path |-> r.path,
     entry |-> IF r.path = "cache" THEN e.cache.entries[GenerateKey(query)]
               ELSE NoEntry]

\* a caller classifies query: find_relevant_doc
Classify(query) ==
    /\ now < MaxCalls
    /\ \E rc \in {FindRelevantDoc(eng.c, corpus, query,
                                  [at |-> now + 1, disk |-> disk.version])},
          rn \in {FindRelevantDoc(eng.n, corpus, query,
                                  [at |-> now + 1, disk |-> disk.version])} :
           /\ eng' = [c |-> rc.e, n |-> rn.e]
           /\ last' = [op |-> "classify", query |-> query, doc |-> None,
                       c |-> ResultOf(rc, eng.c, query),
                       n |-> ResultOf(rn, eng.n, query)]
    /\ now' = now + 1
    /\ UNCHANGED <<corpus, disk, taught, taughtAt>>
    /\ Untouched

\* a caller teaches (query, doc): teach_correction
Teach(query, doc) ==
    /\ now < MaxCalls
    /\ \E rc \in {TeachCorrection(eng.c, corpus, query, doc,
                                  [at |-> now + 1, disk |-> disk.version])},
          rn \in {TeachCorrection(eng.n, corpus, query, doc,
                                  [at |-> now + 1, disk |-> disk.version])},
          nq \in {NormalizeQuery(query)} :
           /\ eng' = [c |-> rc.e, n |-> rn.e]
           /\ last' = [op |-> "teach", query |-> query, doc |-> doc,
                       c |-> [NoRes EXCEPT !.ok = rc.ok, !.doc = rc.predicted],
                       n |-> [NoRes EXCEPT !.ok = rn.ok, !.doc = rn.predicted]]
           /\ taught' = IF rc.ok /\ rn.ok
                        THEN [taught EXCEPT ![<<nq, doc>>] = @ + 1]
                        ELSE taught
           /\ taughtAt' = IF rc.ok /\ rn.ok
                          THEN [taughtAt EXCEPT
                                   ![nq] = [at |-> now + 1, doc |-> doc]]
                          ELSE taughtAt
    /\ now' = now + 1
    /\ UNCHANGED <<corpus, disk>>
    /\ Untouched

\* the time-to-live of the cached entries runs out (setex)
Expire ==
    /\ now < MaxCalls
    /\ \E k \in NormQueries : eng.c.cache.entries[k].present
    /\ eng' = [eng EXCEPT !.c.cache.entries = [k \in NormQueries |-> NoEntry]]
    /\ last' = [Idle EXCEPT !.op = "expire"]
    /\ now' = now + 1
    /\ UNCHANGED <<corpus, disk, taught, taughtAt>>
    /\ Untouched

\* the three handlers of docs_controller write the files and nothing else
DocChange(op, content) ==
    /\ now < MaxCalls
    /\ disk.version < MaxDiskChanges
    /\ disk' = Files(disk.version + 1, content)
    /\ last' = [Idle EXCEPT !.op = op]
    /\ now' = now + 1
    /\ UNCHANGED <<corpus, eng, taught, taughtAt>>
    /\ Untouched

\* docs_controller.create_doc
CreateDoc ==
    \E content \in Contents :
        /\ content.ndocs = disk.ndocs + 1
        /\ DocChange("create_doc", content)

\* docs_controller.update_doc
UpdateDoc ==
    \E content \in Contents :
        /\ disk.ndocs > 0
        /\ content.ndocs = disk.ndocs
        /\ DocChange("update_doc", content)

\* docs_controller.delete_doc
DeleteDoc ==
    \E content \in Contents :
        /\ content.ndocs = disk.ndocs - 1
        /\ DocChange("delete_doc", content)

\* the process is started again: HybridCustomSearchEngine.__init__ indexes
\* the files on disk; what the engine had learned in memory is gone
Construct ==
    /\ now < MaxCalls
    /\ eng' = [c |-> NewEngine(TRUE, eng.c.feedback_loop.use_database,
                                eng.c.feedback_loop.db),
                n |-> NewEngine(FALSE, eng.n.feedback_loop.use_database,
                                eng.n.feedback_loop.db)]
    /\ corpus' = disk
    /\ taught' = [k \in QDKeys |-> 0]
    /\ taughtAt' = [nq \in NormQueries |-> NeverTaught]
    /\ last' = [Idle EXCEPT !.op = "construct"]
    /\ now' = now + 1
    /\ UNCHANGED disk
    /\ Untouched

Next ==
    \/ \E query \in RawQueries : Classify(query)
    \/ \E query \in RawQueries, doc \in Docs : Teach(query, doc)
    \/ Expire
    \/ CreateDoc
    \/ UpdateDoc
    \/ DeleteDoc
    \/ Construct

Spec == Init /\ [][Next]_vars

---------------------------------------------------------------------------
(* The fresh scoring on its own: every pair of score vectors of the grid   *)

ScoreGrid == [1..FuseDocs -> 0..MaxScore]

InitFuse ==
    /\ corpus = Files(0, [ndocs |-> 0, cosine |-> <<>>, bm25 |-> <<>>])
    /\ disk = corpus
    /\ eng = [c |-> NewEngine(TRUE, FALSE, InitDb),
              n |-> NewEngine(FALSE, FALSE, InitDb)]
    /\ now = 0
    /\ last = Idle
    /\ taught = [k \in QDKeys |-> 0]
    /\ taughtAt = [nq \in NormQueries |-> NeverTaught]
    /\ loop = InitLoop(FALSE)
    /\ loopLast = [op |-> "none", n |-> 0]
    /\ \E cosine \in ScoreGrid, bm25 \in ScoreGrid :
           fuseIn = [cosine |-> cosine, bm25 |-> bm25]
    /\ fuseOut = <<>>
    /\ conc = NoTeach
    /\ ix = NoIndex
    /\ redis = NoCache

\* lines 351-382 of find_relevant_doc applied to the two score vectors
Fuse ==
    /\ fuseOut = <<>>
    /\ fuseOut' = FreshScore(fuseIn.cosine, fuseIn.bm25)
    /\ UNCHANGED <<corpus, disk, eng, now, last, taught, taughtAt, loop,
                   loopLast, fuseIn, conc, ix, redis>>

NextFuse == Fuse

SpecFuse == InitFuse /\ [][NextFuse]_vars

---------------------------------------------------------------------------
(* The feedback loop on its own, with and without a store *)

LoopConfidences == {60 * ConfUnit, 100 * ConfUnit}

InitLoopSpec ==
    /\ corpus = Files(0, [ndocs |-> 0, cosine |-> <<>>, bm25 |-> <<>>])
    /\ disk = corpus
    /\ eng = [c |-> NewEngine(TRUE, FALSE, InitDb),
              n |-> NewEngine(FALSE, FALSE, InitDb)]
    /\ now = 0
    /\ last = Idle
    /\ taught = [k \in QDKeys |-> 0]
    /\ taughtAt = [nq \in NormQueries |-> NeverTaught]
    /\ \E use_database \in BOOLEAN : loop = InitLoop(use_database)
    /\ loopLast = [op |-> "none", n |-> 0]
    /\ fuseIn = <<>>
    /\ fuseOut = <<>>
    /\ conc = NoTeach
    /\ ix = NoIndex
    /\ redis = NoCache

EngineUntouched ==
    UNCHANGED <<corpus, disk, eng, now, last, taught, taughtAt, fuseIn, fuseOut, conc, ix, redis>>

\* FeedbackLoop.record_prediction
LoopRecordPrediction(query, predicted_doc, confidence) ==
    /\ loopLast.n < MaxLoopOps
    /\ LET r == RecordPrediction(loop, query, predicted_doc, confidence)
       IN  /\ loop' = r.fl
           /\ loopLast' = [op |-> "record_prediction", n |-> loopLast.n + 1,
                           query |-> query, predicted_doc |-> predicted_doc,
                           ok |-> r.ok, before |-> loop]
    /\ EngineUntouched

\* FeedbackLoop.record_feedback; store_raises: the store raises during it
LoopRecordFeedback(query, predicted_doc, actual_doc, confidence, store_raises) ==
    /\ loopLast.n < MaxLoopOps
    /\ store_raises => loop.use_database
    /\ LET r == RecordFeedback(loop, query, predicted_doc, actual_doc,
                               confidence, store_raises)
       IN  /\ loop' = r.fl
           /\ loopLast' = [op |-> "record_feedback", n |-> loopLast.n + 1,
                           query |-> query, predicted_doc |-> predicted_doc,
                           actual_doc |-> actual_doc,
                           store_raises |-> store_raises,
                           ok |-> r.ok, before |-> loop]
    /\ EngineUntouched

NextLoop ==
    \/ \E query \in RawQueries, doc \in Docs, confidence \in LoopConfidences :
           LoopRecordPrediction(query, doc, confidence)
    \/ \E query \in RawQueries, predicted_doc \in Docs, actual_doc \in Docs,
          store_raises \in BOOLEAN :
           LoopRecordFeedback(query, predicted_doc, actual_doc, 100 * ConfUnit,
                              store_raises)

SpecLoop == InitLoopSpec /\ [][NextLoop]_vars

---------------------------------------------------------------------------
(* Teach calls running concurrently on the one engine of the service.  The *)
(* server handles each request in a thread of its own and the engine takes *)
(* no lock: a thread may be switched between any two statements, and an    *)
(* augmented assignment x[k] += 1 is a load followed by a store.           *)

\* teach calls running concurrently
NTeach == 2

Threads == 1..NTeach

\* the counters record_feedback increments, in the order of the statements
Increments(is_correct) ==
    IF is_correct
    THEN <<[of |-> "query_doc_stats", field |-> "correct"],
           [of |-> "doc_stats", field |-> "times_correct"],
           [of |-> "engine_stats", field |-> "correct"]>>
    ELSE <<[of |-> "query_doc_stats", field |-> "incorrect"],
           [of |-> "engine_stats", field |-> "incorrect"]>>

\* the value of the counter c as the thread th sees it in the loop fl
LoadCounter(fl, th, c) ==
    IF c.of = "query_doc_stats"
    THEN fl.query_doc_stats[<<NormalizeQuery(th.error_text), th.predicted_doc>>][c.field]
    ELSE IF c.of = "doc_stats" THEN fl.doc_stats[th.predicted_doc][c.field]
    ELSE fl.engine_stats[c.field]

\* the loop fl after the thread th stored v in the counter c
StoreCounter(fl, th, c, v) ==
    IF c.of = "query_doc_stats"
    THEN [fl EXCEPT !.query_doc_stats[<<NormalizeQuery(th.error_text), th.predicted_doc>>][c.field] = v]
    ELSE IF c.of = "doc_stats"
    THEN [fl EXCEPT !.doc_stats[th.predicted_doc][c.field] = v]
    ELSE [fl EXCEPT !.engine_stats[c.field] = v]

\* FeedbackLoop.record_feedback after its increments: the rates, the
\* pattern of the query and the history entry
RecordFeedbackRates(fl, query, predicted_doc, actual_doc, original_confidence) ==
    LET normalized_query == NormalizeQuery(query)
        is_correct == (predicted_doc = actual_doc)
        hit == IF is_correct THEN 1 ELSE 0
        key == <<normalized_query, predicted_doc>>
        stats == fl.query_doc_stats[key]
        success_rate == (LearningRateX10 * hit * RateUnit
                         + (10 - LearningRateX10) * stats.success_rate) \div 10
        doc_stat == fl.doc_stats[predicted_doc]
        engine_stat == fl.engine_stats
        total == engine_stat.correct + engine_stat.incorrect
        accuracy == (engine_stat.correct * RateUnit) \div total
        pattern == fl.query_patterns[normalized_query]
    IN  [fl EXCEPT
            !.query_doc_stats[key].success_rate = success_rate,
            !.doc_stats[predicted_doc].accuracy =
                IF doc_stat.times_shown > 0
                THEN (doc_stat.times_correct * RateUnit) \div doc_stat.times_shown
                ELSE @,
            !.engine_stats =
                IF total > 0
                THEN [@ EXCEPT !.accuracy = accuracy,
                               !.weight = accuracy + ExplorationBonus(total)]
                ELSE @,
            !.pattern_keys =
                IF is_correct THEN Touch(@, normalized_query) ELSE @,
            !.query_patterns[normalized_query] =
                IF ~is_correct THEN pattern
                ELSE IF pattern.best_doc = actual_doc
                THEN [pattern EXCEPT !.best_doc_count = @ + 1]
                ELSE IF pattern.best_doc = None \/ pattern.best_doc_count = 0
                THEN [pattern EXCEPT !.best_doc = actual_doc,
                                     !.best_doc_count = 1]
                ELSE pattern,
            !.feedback_history = Append(@,
                [query |-> query, predicted_doc |-> predicted_doc,
                 actual_doc |-> actual_doc, is_correct |-> is_correct,
                 original_confidence |-> original_confidence,
                 success_rate |-> success_rate])]

\* a request thread about to call teach_correction(error_text, correct_doc_path)
NewThread(error_text, correct_doc_path) ==
    [pc |-> "find", error_text |-> error_text,
     correct_doc_path |-> correct_doc_path, predicted_doc |-> None,
     i |-> 1, tmp |-> 0]

InitTeach ==
    /\ corpus = Files(0, [ndocs |-> 0, cosine |-> <<>>, bm25 |-> <<>>])
    /\ disk = corpus
    /\ eng = [c |-> NewEngine(TRUE, FALSE, InitDb),
              n |-> NewEngine(FALSE, FALSE, InitDb)]
    /\ now = 0
    /\ last = Idle
    /\ taught = [k \in QDKeys |-> 0]
    /\ taughtAt = [nq \in NormQueries |-> NeverTaught]
    /\ loop = InitLoop(FALSE)
    /\ loopLast = [op |-> "none", n |-> 0]
    /\ fuseIn = <<>>
    /\ fuseOut = <<>>
    /\ \E th \in [Threads -> {NewThread(q, d) : q \in {qA, qC}, d \in Docs}] :
           conc = [feedback_documents |-> <<>>, feedback_paths |-> <<>>,
                   th |-> th]
    /\ ix = NoIndex
    /\ redis = NoCache

TeachFrame ==
    UNCHANGED <<corpus, disk, eng, now, last, taught, taughtAt, loopLast, fuseIn, fuseOut, ix, redis>>

\* teach_correction: find_relevant_doc resolves a prediction, and records it
TeachFind(t) ==
    /\ conc.th[t].pc = "find"
    /\ \E d \in Docs :
           /\ loop' = RecordPrediction(loop, conc.th[t].error_text, d, 100 * ConfUnit).fl
           /\ conc' = [conc EXCEPT !.th[t].pc = "load",
                                   !.th[t].predicted_doc = d]
    /\ TeachFrame

\* record_feedback: the load of an augmented assignment
TeachLoad(t) ==
    LET th == conc.th[t]
        c == Increments(th.predicted_doc = th.correct_doc_path)[th.i]
    IN  /\ th.pc = "load"
        /\ conc' = [conc EXCEPT !.th[t].pc = "store",
                                !.th[t].tmp = LoadCounter(loop, th, c)]
        /\ UNCHANGED loop
        /\ TeachFrame

\* record_feedback: the store of an augmented assignment
TeachStore(t) ==
    LET th == conc.th[t]
        incs == Increments(th.predicted_doc = th.correct_doc_path)
    IN  /\ th.pc = "store"
        /\ loop' = StoreCounter(loop, th, incs[th.i], th.tmp + 1)
        /\ conc' = [conc EXCEPT
               !.th[t].pc = IF th.i = Len(incs) THEN "rates" ELSE "load",
               !.th[t].i = th.i + 1]
        /\ TeachFrame

\* record_feedback: the rates, the pattern and the history entry
TeachRates(t) ==
    LET th == conc.th[t]
    IN  /\ th.pc = "rates"
        /\ loop' = RecordFeedbackRates(loop, th.error_text, th.predicted_doc, th.correct_doc_path, 100 * ConfUnit)
        /\ conc' = [conc EXCEPT !.th[t].pc = "documents"]
        /\ TeachFrame

\* teach_correction: self.feedback_documents.append(error_text)
TeachAppendDocument(t) ==
    /\ conc.th[t].pc = "documents"
    /\ conc' = [conc EXCEPT !.th[t].pc = "paths",
                            !.feedback_documents = Append(@, conc.th[t].error_text)]
    /\ UNCHANGED loop
    /\ TeachFrame

\* teach_correction: self.feedback_paths.append(correct_doc_path), then the
\* refit and the save, which change none of the lists
TeachAppendPath(t) ==
    /\ conc.th[t].pc = "paths"
    /\ conc' = [conc EXCEPT !.th[t].pc = "done",
                            !.feedback_paths = Append(@, conc.th[t].correct_doc_path)]
    /\ UNCHANGED loop
    /\ TeachFrame

NextTeach ==
    \E t \in Threads :
        \/ TeachFind(t)
        \/ TeachLoad(t)
        \/ TeachStore(t)
        \/ TeachRates(t)
        \/ TeachAppendDocument(t)
        \/ TeachAppendPath(t)

SpecTeach == InitTeach /\ [][NextTeach]_vars

---------------------------------------------------------------------------
(* Indexing: the documentation files, the vector store and the index the   *)
(* engine holds in memory.  A text is taken whole: its terms are itself.   *)

\* index() calls, restarts and file changes per behaviour
MaxIndexOps == 3

\* the documentation paths, in the order glob lists them
PathOrder == <<"p1", "p2">>

Paths == SeqToSet(PathOrder)

\* no file at the path
Absent == "absent"

\* what a file can hold: nothing, or one of two texts
Texts == {"", "t1", "t2"}

\* glob.glob(search_pattern, recursive=True)
Glob(files) == SelectSeq(PathOrder, LAMBDA p : files[p] # Absent)

\* the _id the store gives the document of a path, and str(_id)
ObjectId(doc_path) == [t |-> "ObjectId", hex |-> doc_path]

IdStr(id) == [t |-> "str", hex |-> id.hex]

\* MongoVectorStore._compute_content_hash
ContentHash(content) == <<"sha256", content>>

\* MongoVectorStore._serialize_vector: the vector as float32
SerializeVector(vector) == [vector EXCEPT !.dtype = "float32"]

\* len(vector): one component per feature of the fit the vector is a row of
VectorLength(vector) == Cardinality(SeqToSet(vector.fit))

\* MongoVectorStore._deserialize_vector: the stored data as rows of the
\* stored dimension
DeserializeVector(data, dimension) ==
    [data |-> data, shape |-> <<VectorLength(data) \div dimension, dimension>>]

\* a new, empty vector store
InitStore ==
    [documents_col |-> <<>>, vectors_col |-> <<>>,
     vocabulary_col |-> {}, metadata_col |-> {}]

\* MongoVectorStore.save_document
SaveDocument(st, doc_path, content) ==
    LET existing == SelectSeq(st.documents_col, LAMBDA d : d.doc_path = doc_path)
    IN  IF existing # <<>>
        THEN IF existing[1].content_hash # ContentHash(content)
             THEN [st EXCEPT
                      !.documents_col =
                          [i \in DOMAIN @ |->
                              IF @[i].doc_path = doc_path
                              THEN [@[i] EXCEPT !.content_hash = ContentHash(content)]
                              ELSE @[i]],
                      !.vectors_col =
                          SelectSeq(@, LAMBDA v : v.document_id # IdStr(existing[1]._id))]
             ELSE st
        ELSE [st EXCEPT !.documents_col =
                 Append(@, [_id |-> ObjectId(doc_path), doc_path |-> doc_path,
                            content_hash |-> ContentHash(content)])]

\* MongoVectorStore.save_vector; ok is FALSE when it raises ValueError
SaveVector(st, doc_path, vector, vector_type) ==
    LET doc == SelectSeq(st.documents_col, LAMBDA d : d.doc_path = doc_path)
        entry == [document_id |-> IdStr(doc[1]._id), vector_type |-> vector_type,
                  vector |-> SerializeVector(vector),
                  dimension |-> VectorLength(vector)]
        same(v) == v.document_id = entry.document_id /\ v.vector_type = vector_type
    IN  IF doc = <<>> THEN [ok |-> FALSE, st |-> st]
        ELSE [ok |-> TRUE,
              st |-> [st EXCEPT !.vectors_col =
                         IF \E i \in DOMAIN @ : same(@[i])
                         THEN [i \in DOMAIN @ |-> IF same(@[i]) THEN entry ELSE @[i]]
                         ELSE Append(@, entry)]]

\* the loop of save_vectors_batch over the first n pairs
RECURSIVE SaveVectors(_, _, _, _, _)
SaveVectors(st, doc_paths, vectors, vector_type, n) ==
    IF n = 0 THEN st
    ELSE SaveVector(SaveVectors(st, doc_paths, vectors, vector_type, n - 1), doc_paths[n], vectors[n], vector_type).st

\* MongoVectorStore.save_vectors_batch; ok is FALSE when it raises ValueError
SaveVectorsBatch(st, doc_paths, vectors, vector_type) ==
    IF Len(doc_paths) # Len(vectors) THEN [ok |-> FALSE, st |-> st]
    ELSE [ok |-> TRUE,
          st |-> SaveVectors(st, doc_paths, vectors, vector_type, Len(doc_paths))]

\* MongoVectorStore.get_all_vectors
GetAllVectors(st, vector_type) ==
    LET vector_docs == SelectSeq(st.vectors_col, LAMBDA v : v.vector_type = vector_type)
        doc_of(v) == SelectSeq(st.documents_col, LAMBDA d : d._id = v.document_id)
        found == SelectSeq(vector_docs, LAMBDA v : doc_of(v) # <<>>)
    IN  [doc_paths |-> [i \in 1..Len(found) |-> doc_of(found[i])[1].doc_path],
         vectors_matrix |-> [i \in 1..Len(found) |-> found[i].vector]]

\* MongoVectorStore.get_vector; found is FALSE when it returns None
GetVector(st, doc_path, vector_type) ==
    LET doc == SelectSeq(st.documents_col, LAMBDA d : d.doc_path = doc_path)
        vector_doc == SelectSeq(st.vectors_col,
            LAMBDA v : /\ doc # <<>>
                       /\ v.document_id = IdStr(doc[1]._id)
                       /\ v.vector_type = vector_type)
    IN  IF doc = <<>> \/ vector_doc = <<>> THEN [found |-> FALSE]
        ELSE [found |-> TRUE,
              array |-> DeserializeVector(vector_doc[1].vector, vector_doc[1].dimension)]

\* MongoVectorStore.needs_reindex
NeedsReindex(st, doc_paths, vector_type) ==
    LET docs == SelectSeq(st.documents_col, LAMBDA d : d.doc_path \in SeqToSet(doc_paths))
        doc_count == Len(docs)
        doc_ids == {IdStr(docs[i]._id) : i \in DOMAIN docs}
        vector_count ==
            Len(SelectSeq(st.vectors_col,
                          LAMBDA v : v.document_id \in doc_ids /\ v.vector_type = vector_type))
    IN  doc_count # vector_count \/ doc_count # Len(doc_paths)

\* HybridCustomSearchEngine._extract_metadata
ExtractMetadata(filepath) == <<"metadata", filepath>>

\* TfidfVectorizer.fit_transform: one row per document, of the whole fit
FitTransform(documents) ==
    [i \in 1..Len(documents) |-> [fit |-> documents, row |-> i, dtype |-> "float64"]]

\* the vocabulary a fit on the documents leaves in the vectorizer
Vocabulary(documents) ==
    [feature_names |-> SeqToSet(documents), n_docs |-> Len(documents)]

\* the storage of an engine before it has indexed
NewIndexEngine ==
    [documents |-> <<>>, doc_paths |-> <<>>, doc_metadata |-> <<>>,
     tfidf_matrix |-> None, vocabulary |-> None, corpus_size |-> 0]

\* _index_documents: the index loaded from the store into the engine e
LoadIndex(e, files, st) ==
    LET readable == SelectSeq(e.doc_paths, LAMBDA p : files[p] \notin {Absent, ""})
        documents == e.documents \o [i \in 1..Len(readable) |-> files[readable[i]]]
    IN  [raised |-> FALSE, st |-> st,
         e |-> [e EXCEPT
             !.vocabulary =
                 IF st.vocabulary_col # {}
                 THEN [feature_names |-> st.vocabulary_col, n_docs |-> Len(e.doc_paths)]
                 ELSE @,
             !.documents = documents,
             !.doc_metadata =
                 @ \o [i \in 1..Len(readable) |-> ExtractMetadata(readable[i])],
             !.corpus_size = IF Len(documents) > 0 THEN Len(documents) ELSE @]]

\* the loop of the fresh index over the first n files: save_document
RECURSIVE SaveDocuments(_, _, _, _)
SaveDocuments(st, files, readable, n) ==
    IF n = 0 THEN st
    ELSE SaveDocument(SaveDocuments(st, files, readable, n - 1), readable[n], files[readable[n]])

\* _index_documents: the fit of the loaded documents and what follows it
FitIndex(e, st, use_vector_store) ==
    LET tfidf_matrix == FitTransform(e.documents)
        fitted == [e EXCEPT !.tfidf_matrix = tfidf_matrix,
                            !.vocabulary = Vocabulary(e.documents)]
        batch == SaveVectorsBatch(st, e.doc_paths, tfidf_matrix, "tfidf")
    IN  IF use_vector_store /\ ~batch.ok
        THEN [raised |-> TRUE, st |-> st, e |-> fitted]
        ELSE [raised |-> FALSE,
              st |-> IF use_vector_store
                     THEN [batch.st EXCEPT
                              !.vocabulary_col = fitted.vocabulary.feature_names,
                              !.metadata_col = {"tfidf"}]
                     ELSE st,
              e |-> [fitted EXCEPT !.corpus_size = Len(e.documents)]]

\* _index_documents: the index built from the files
FreshIndex(e, files, st, use_vector_store) ==
    LET readable == SelectSeq(Glob(files), LAMBDA p : files[p] # "")
        loaded == [e EXCEPT
            !.documents = @ \o [i \in 1..Len(readable) |-> files[readable[i]]],
            !.doc_paths = @ \o readable,
            !.doc_metadata =
                @ \o [i \in 1..Len(readable) |-> ExtractMetadata(readable[i])]]
        saved == IF use_vector_store
                 THEN SaveDocuments(st, files, readable, Len(readable))
                 ELSE st
    IN  IF Len(loaded.documents) = 0
        THEN [raised |-> FALSE, st |-> saved, e |-> loaded]
        ELSE FitIndex(loaded, saved, use_vector_store)

\* HybridCustomSearchEngine._index_documents on the engine e; raised: the
\* call raised
IndexDocuments(e, files, st, use_vector_store) ==
    LET try_load == use_vector_store /\ ~NeedsReindex(st, Glob(files), "tfidf")
        got == GetAllVectors(st, "tfidf")
        assigned == IF try_load
                    THEN [e EXCEPT !.doc_paths = got.doc_paths,
                                   !.tfidf_matrix = got.vectors_matrix]
                    ELSE e
    IN  IF Glob(files) = <<>> THEN [raised |-> FALSE, st |-> st, e |-> e]
        ELSE IF try_load /\ Len(got.doc_paths) > 0 /\ Len(got.vectors_matrix) > 0
        THEN LoadIndex(assigned, files, st)
        ELSE FreshIndex(assigned, files, st, use_vector_store)

\* the engine is constructed over the files: __init__ indexes them
InitIndex ==
    /\ corpus = Files(0, [ndocs |-> 0, cosine |-> <<>>, bm25 |-> <<>>])
    /\ disk = corpus
    /\ eng = [c |-> NewEngine(TRUE, FALSE, InitDb),
              n |-> NewEngine(FALSE, FALSE, InitDb)]
    /\ now = 0
    /\ last = Idle
    /\ taught = [k \in QDKeys |-> 0]
    /\ taughtAt = [nq \in NormQueries |-> NeverTaught]
    /\ loop = InitLoop(FALSE)
    /\ loopLast = [op |-> "none", n |-> 0]
    /\ fuseIn = <<>>
    /\ fuseOut = <<>>
    /\ conc = NoTeach
    /\ \E files \in [Paths -> Texts \cup {Absent}], use_vector_store \in BOOLEAN :
           \E r \in {IndexDocuments(NewIndexEngine, files, InitStore, use_vector_store)} :
               ix = [files |-> files, use_vector_store |-> use_vector_store,
                     store |-> r.st, engine |-> r.e, raised |-> r.raised,
                     n |-> 0, op |-> "construct", indexed |-> files,
                     before |-> [engine |-> NewIndexEngine, raised |-> FALSE,
                                 files |-> files]]
    /\ redis = NoCache

IndexFrame ==
    UNCHANGED <<corpus, disk, eng, now, last, taught, taughtAt, loop, loopLast, fuseIn, fuseOut, conc, redis>>

\* the state after _index_documents ran on the engine e
Indexed(e, op) ==
    \E r \in {IndexDocuments(e, ix.files, ix.store, ix.use_vector_store)} :
        ix' = [ix EXCEPT !.store = r.st, !.engine = r.e, !.raised = r.raised,
                         !.n = @ + 1, !.op = op, !.indexed = ix.files,
                         !.before = [engine |-> ix.engine, raised |-> ix.raised,
                                     files |-> ix.indexed]]

\* _index_documents is called again on the engine
IndexAgain ==
    /\ ix.n < MaxIndexOps
    /\ Indexed(ix.engine, "index")
    /\ IndexFrame

\* the process is restarted: a new engine indexes over the same store
Restart ==
    /\ ix.n < MaxIndexOps
    /\ Indexed(NewIndexEngine, "restart")
    /\ IndexFrame

\* a documentation file is written
WriteFile(p, text) ==
    /\ ix.n < MaxIndexOps
    /\ ix.files[p] # text
    /\ ix' = [ix EXCEPT !.files[p] = text, !.n = @ + 1, !.op = "write"]
    /\ IndexFrame

\* a documentation file is deleted
DeleteFile(p) ==
    /\ ix.n < MaxIndexOps
    /\ ix.files[p] # Absent
    /\ ix' = [ix EXCEPT !.files[p] = Absent, !.n = @ + 1, !.op = "delete"]
    /\ IndexFrame

NextIndex ==
    \/ IndexAgain
    \/ Restart
    \/ \E p \in Paths, text \in Texts : WriteFile(p, text)
    \/ \E p \in Paths : DeleteFile(p)

SpecIndex == InitIndex /\ [][NextIndex]_vars

---------------------------------------------------------------------------
(* The cache on its own, in front of a server that can fail *)

\* operations on the stand-alone cache, and server changes, per behaviour
MaxCacheOps == 3

Prefixes == {"search", "classification"}

\* the extra parameters of a key: none, or the engine's method = 'HYBRID_CUSTOM'
NoKwargs == <<>>

MethodKwargs == <<<<"method", "HYBRID_CUSTOM">>>>

\* queries that differ in letter case and in blanks only, and others
KeyQueries == RawQueries \cup {<<"", "schema", "now", "">>}

\* hashlib.sha256(json.dumps(key_data, sort_keys=True).encode()).hexdigest()[:16]
\* on the key data of the model's queries
Sha256Hex16(key_data) ==
    CASE key_data = [query |-> <<"schema", "now">>, kwargs |-> NoKwargs] -> <<"8", "2", "f", "9", "b", "7", "6", "c", "6", "a", "e", "e", "1", "4", "5", "f">>
      [] key_data = [query |-> <<"now", "schema">>, kwargs |-> NoKwargs] -> <<"6", "c", "1", "e", "6", "b", "d", "0", "a", "3", "1", "b", "d", "7", "b", "7">>
      [] key_data = [query |-> <<>>, kwargs |-> NoKwargs] -> <<"7", "b", "c", "8", "3", "b", "8", "f", "8", "7", "d", "8", "f", "e", "c", "5">>
      [] key_data = [query |-> <<"Schema", "now">>, kwargs |-> NoKwargs] -> <<"0", "c", "9", "1", "1", "a", "a", "f", "5", "2", "1", "2", "9", "b", "3", "9">>
      [] key_data = [query |-> <<"now", "Schema">>, kwargs |-> NoKwargs] -> <<"6", "8", "6", "2", "4", "9", "c", "c", "f", "d", "f", "6", "8", "3", "5", "d">>
      [] key_data = [query |-> <<"schema", "now">>, kwargs |-> MethodKwargs] -> <<"f", "1", "3", "d", "6", "6", "a", "6", "f", "d", "f", "b", "6", "0", "d", "a">>
      [] key_data = [query |-> <<"now", "schema">>, kwargs |-> MethodKwargs] -> <<"8", "3", "f", "e", "2", "b", "f", "8", "6", "d", "2", "1", "a", "b", "5", "c">>
      [] key_data = [query |-> <<>>, kwargs |-> MethodKwargs] -> <<"0", "c", "6", "9", "8", "2", "4", "9", "9", "9", "9", "5", "2", "f", "b", "1">>
      [] key_data = [query |-> <<"Schema", "now">>, kwargs |-> MethodKwargs] -> <<"8", "a", "2", "f", "b", "9", "a", "5", "a", "6", "b", "b", "f", "a", "7", "c">>
      [] key_data = [query |-> <<"now", "Schema">>, kwargs |-> MethodKwargs] -> <<"f", "1", "0", "e", "3", "7", "b", "4", "a", "b", "f", "9", "0", "4", "8", "6">>

\* RedisCache._generate_key without lower()
GenerateKeyNoLower(prefix, query, kwargs) ==
    [prefix |-> prefix,
     key_hash |-> Sha256Hex16([query |-> Split(query), kwargs |-> kwargs])]

\* RedisCache._generate_key: f"{prefix}:{key_hash}", the query lowered,
\* stripped, split and joined with single blanks
GenerateKeyWith(prefix, query, kwargs) ==
    [prefix |-> prefix,
     key_hash |-> Sha256Hex16([query |-> Split(LowerSeq(query)), kwargs |-> kwargs])]

\* the keys the model's queries give under the prefixes
CacheKeys ==
    {GenerateKeyWith(prefix, q, kwargs) :
        prefix \in Prefixes, q \in KeyQueries, kwargs \in {NoKwargs, MethodKwargs}}

\* no value under the key
Missing == "nil"

CacheValues == {"v1"}

\* RedisCache.__init__; installed: the redis package imports, up: the
\* server answers the ping
RedisInit(redis_url, enabled, installed, up) ==
    IF ~enabled \/ ~redis_url \/ ~installed
    THEN [enabled |-> FALSE, redis_client |-> FALSE,
          cache_hits |-> 0, cache_misses |-> 0]
    ELSE [enabled |-> up, redis_client |-> TRUE,
          cache_hits |-> 0, cache_misses |-> 0]

\* the cache c does not reach the server srv: it returns at once, or the
\* client raises and the except clause swallows it
Unreached(c, srv) == ~c.enabled \/ ~c.redis_client \/ ~srv.up

\* RedisCache.get
RedisGet(c, srv, prefix, query, kwargs) ==
    LET key == GenerateKeyWith(prefix, query, kwargs)
    IN  IF Unreached(c, srv)
        THEN [c |-> c, srv |-> srv, result |-> Missing, raised |-> FALSE]
        ELSE IF srv.db[key] # Missing
        THEN [c |-> [c EXCEPT !.cache_hits = @ + 1], srv |-> srv,
              result |-> srv.db[key], raised |-> FALSE]
        ELSE [c |-> [c EXCEPT !.cache_misses = @ + 1], srv |-> srv,
              result |-> Missing, raised |-> FALSE]

\* RedisCache.set without its first statement
RedisSetUnguarded(c, srv, prefix, query, value, kwargs) ==
    [c |-> c, result |-> Missing, raised |-> FALSE,
     srv |-> IF ~srv.up THEN srv
             ELSE [srv EXCEPT !.db[GenerateKeyWith(prefix, query, kwargs)] = value]]

\* RedisCache.set
RedisSet(c, srv, prefix, query, value, kwargs) ==
    [c |-> c, result |-> Missing, raised |-> FALSE,
     srv |-> IF Unreached(c, srv) THEN srv
             ELSE [srv EXCEPT !.db[GenerateKeyWith(prefix, query, kwargs)] = value]]

\* RedisCache.delete(prefix)
RedisDelete(c, srv, prefix) ==
    [c |-> c, result |-> Missing, raised |-> FALSE,
     srv |-> IF Unreached(c, srv) THEN srv
             ELSE [srv EXCEPT !.db =
                      [k \in CacheKeys |-> IF k.prefix = prefix THEN Missing ELSE @[k]]]]

\* RedisCache.clear_all
RedisClearAll(c, srv) ==
    [c |-> c, result |-> Missing, raised |-> FALSE,
     srv |-> IF Unreached(c, srv) THEN srv
             ELSE [srv EXCEPT !.db = [k \in CacheKeys |-> Missing]]]

\* RedisCache.get_stats
RedisGetStats(c, srv) ==
    [c |-> c, srv |-> srv, raised |-> FALSE,
     result |-> IF ~c.enabled
                THEN [enabled |-> FALSE, hits |-> 0, misses |-> 0]
                ELSE [enabled |-> TRUE, hits |-> c.cache_hits,
                      misses |-> c.cache_misses]]

\* RedisCache.invalidate_on_doc_change
RedisInvalidateOnDocChange(c, srv) ==
    RedisDelete(c, RedisDelete(c, srv, "search").srv, "classification")

\* RedisCache.close
RedisClose(c, srv) ==
    [c |-> c, srv |-> srv, result |-> Missing, raised |-> FALSE]

\* a call without prefix, query and extra parameters
NoArgs == <<>>

InitCacheSpec ==
    /\ corpus = Files(0, [ndocs |-> 0, cosine |-> <<>>, bm25 |-> <<>>])
    /\ disk = corpus
    /\ eng = [c |-> NewEngine(TRUE, FALSE, InitDb),
              n |-> NewEngine(FALSE, FALSE, InitDb)]
    /\ now = 0
    /\ last = Idle
    /\ taught = [k \in QDKeys |-> 0]
    /\ taughtAt = [nq \in NormQueries |-> NeverTaught]
    /\ loop = InitLoop(FALSE)
    /\ loopLast = [op |-> "none", n |-> 0]
    /\ fuseIn = <<>>
    /\ fuseOut = <<>>
    /\ conc = NoTeach
    /\ ix = NoIndex
    /\ \E redis_url \in BOOLEAN, enabled \in BOOLEAN, installed \in BOOLEAN, up \in BOOLEAN :
           LET c == RedisInit(redis_url, enabled, installed, up)
               srv == [up |-> up, db |-> [k \in CacheKeys |-> Missing]]
           IN  redis = [c |-> c, srv |-> srv, n |-> 0, op |-> "init", args |-> NoArgs,
                        result |-> Missing, raised |-> FALSE,
                        before |-> [c |-> c, srv |-> srv, args |-> NoArgs]]

CacheFrame ==
    UNCHANGED <<corpus, disk, eng, now, last, taught, taughtAt, loop, loopLast, fuseIn, fuseOut, conc, ix>>

\* the state after the call named op, with the arguments args, returned r
Called(op, args, r) ==
    redis' = [c |-> r.c, srv |-> r.srv, n |-> redis.n + 1, op |-> op, args |-> args,
              result |-> r.result, raised |-> r.raised,
              before |-> [c |-> redis.c, srv |-> redis.srv, args |-> redis.args]]

CallGet(prefix, query, kwargs) ==
    /\ redis.n < MaxCacheOps
    /\ Called("get", <<prefix, query, kwargs>>, RedisGet(redis.c, redis.srv, prefix, query, kwargs))
    /\ CacheFrame

CallSet(prefix, query, value, kwargs) ==
    /\ redis.n < MaxCacheOps
    /\ Called("set", <<prefix, query, kwargs>>, RedisSet(redis.c, redis.srv, prefix, query, value, kwargs))
    /\ CacheFrame

CallDelete(prefix) ==
    /\ redis.n < MaxCacheOps
    /\ Called("delete", NoArgs, RedisDelete(redis.c, redis.srv, prefix))
    /\ CacheFrame

CallClearAll ==
    /\ redis.n < MaxCacheOps
    /\ Called("clear_all", NoArgs, RedisClearAll(redis.c, redis.srv))
    /\ CacheFrame

CallGetStats ==
    /\ redis.n < MaxCacheOps
    /\ Called("get_stats", NoArgs, RedisGetStats(redis.c, redis.srv))
    /\ CacheFrame

CallInvalidate ==
    /\ redis.n < MaxCacheOps
    /\ Called("invalidate_on_doc_change", NoArgs, RedisInvalidateOnDocChange(redis.c, redis.srv))
    /\ CacheFrame

CallClose ==
    /\ redis.n < MaxCacheOps
    /\ Called("close", NoArgs, RedisClose(redis.c, redis.srv))
    /\ CacheFrame

\* the server goes away, or comes back
ServerChange ==
    /\ redis.n < MaxCacheOps
    /\ redis' = [redis EXCEPT !.srv.up = ~@, !.n = @ + 1, !.op = "server", !.args = NoArgs,
                              !.before = [c |-> redis.c, srv |-> redis.srv, args |-> redis.args]]
    /\ CacheFrame

NextCache ==
    \/ \E prefix \in Prefixes, query \in KeyQueries, kwargs \in {NoKwargs, MethodKwargs} :
           CallGet(prefix, query, kwargs)
    \/ \E prefix \in Prefixes, query \in KeyQueries, value \in CacheValues,
          kwargs \in {NoKwargs, MethodKwargs} :
           CallSet(prefix, query, value, kwargs)
    \/ \E prefix \in Prefixes : CallDelete(prefix)
    \/ CallClearAll
    \/ CallGetStats
    \/ CallInvalidate
    \/ CallClose
    \/ ServerChange

SpecCache == InitCacheSpec /\ [][NextCache]_vars

---------------------------------------------------------------------------
(* The properties *)

\* the normalised query of the last call
LastKey == NormalizeQuery(last.query)

\* C1: on a non-empty corpus, once teach(q, d) has completed twice, a
\* classify(q) that returns gives d with confidence >= 97, on the engine
\* with the cache and on the engine without it
C1_TaughtTwiceReturnsDoc ==
    \A d \in Docs :
        (/\ last.op = "classify"
         /\ corpus.ndocs > 0
         /\ taught[<<LastKey, d>>] >= 2)
        => \A s \in Sides :
               last[s].ok => /\ last[s].doc = d
                             /\ last[s].confidence >= 97 * ConfUnit

\* C2: a classify(q) that starts after a teach(q, d) has completed answers
\* through the exact-pattern shortcut or with a confidence that
\* adjust_confidence computed after the teach; an answer served from the
\* cache was computed in one of these two ways after the teach
C2_ClassifyAfterTeachIsCurrent ==
    (last.op = "classify" /\ taughtAt[LastKey].at > 0)
    => \A s \in Sides :
           last[s].ok =>
               \/ last[s].path \in {"exact", "fresh"}
               \/ /\ last[s].path = "cache"
                  /\ last[s].entry.at > taughtAt[LastKey].at
                  /\ last[s].entry.via \in {"exact", "fresh"}

\* C3: over a corpus that never changes, the engine with the cache and the
\* engine without it, given the same calls, answer every classify alike:
\* both fail, or both return the same document and confidence
C3_CacheInvariance ==
    (last.op = "classify" /\ disk.version = 0 /\ corpus.version = 0)
    => /\ last.c.ok = last.n.ok
       /\ last.c.doc = last.n.doc
       /\ last.c.confidence = last.n.confidence

\* what record_prediction adds for (nq, doc) to the loop before
OnePredictionMore(before, after, nq, doc) ==
    /\ after.engine_stats.predictions = before.engine_stats.predictions + 1
    /\ after.query_doc_stats =
           [before.query_doc_stats EXCEPT ![<<nq, doc>>].total = @ + 1]
    /\ after.doc_stats =
           [before.doc_stats EXCEPT ![doc].times_shown = @ + 1]
    /\ after.query_patterns[nq].count = before.query_patterns[nq].count + 1
    /\ \A k \in NormQueries \ {nq} :
           after.query_patterns[k] = before.query_patterns[k]

\* C4: a classify that returns records exactly one prediction for the
\* returned (query, doc), whether it was answered from the cache, by a
\* learned shortcut or by fresh scoring; a classify that fails leaves the
\* feedback loop as it was
C4_OnePredictionPerClassify ==
    [][last'.op = "classify" =>
          \A s \in Sides :
              IF last'[s].ok
              THEN /\ last'[s].path \in
                          {"cache", "store", "exact", "similar", "legacy",
                           "fresh"}
                   /\ OnePredictionMore(eng[s].feedback_loop,
                                        eng'[s].feedback_loop,
                                        NormalizeQuery(last'.query),
                                        last'[s].doc)
              ELSE eng'[s].feedback_loop = eng[s].feedback_loop]_vars

\* a classify answered from the cache on one engine and by a learned
\* shortcut on the other, both recorded
C4_Witness ==
    /\ last.op = "classify"
    /\ last.c.ok /\ last.c.path = "cache"
    /\ last.n.ok /\ last.n.path \in {"exact", "similar", "legacy"}
    /\ eng.c.feedback_loop.engine_stats.predictions >= 2
    /\ eng.n.feedback_loop.engine_stats.predictions >= 2

\* the fusion by document: the two normalised scores of the same document
PerDocumentFusion(cosine, bm25) ==
    LET n_tfidf == NormalizeScores(cosine)
        n_bm25 == NormalizeScores(bm25)
    IN  Table([i \in 1..Len(bm25) |->
                  (TfidfWeightX10 * n_tfidf[i] + Bm25WeightX10 * n_bm25[i])
                      \div (TfidfWeightX10 + Bm25WeightX10)])

\* C5: fresh scoring picks the lowest index i that maximises
\* w_tfidf * n_tfidf[i] + w_bm25 * n_bm25[i], the two normalised scores of
\* document i, and the raw confidence is that maximum times 100
C5_FreshPicksPerDocumentArgmax ==
    fuseOut # <<>>
    => LET fused == PerDocumentFusion(fuseIn.cosine, fuseIn.bm25)
           best == Argmax(fused)
       IN  /\ fuseOut.best_idx = best
           /\ fuseOut.confidence = (fused[best] * 100 * ConfUnit) \div RateUnit

\* C6: after teach(q, d) has returned, a classify(q) answered from the cache
\* is answered from an entry written after that teach
C6_TeachInvalidatesCache ==
    (/\ last.op = "classify"
     /\ last.c.ok /\ last.c.path = "cache"
     /\ taughtAt[LastKey].at > 0)
    => last.c.entry.at > taughtAt[LastKey].at

\* C7: a classify answered from the cache is answered from an entry stored
\* since the last change of the documents on disk
C7_CorpusChangeInvalidatesCache ==
    (last.op = "classify" /\ last.c.ok /\ last.c.path = "cache")
    => last.c.entry.disk = disk.version

\* C8: classify of a query without tokens fails: no document, no confidence
C8_EmptyQueryFails ==
    (last.op = "classify" /\ TfidfTokenize(last.query) = <<>>)
    => \A s \in Sides : ~last[s].ok

C10_StoreFailureKeepsCorrection ==
    (loopLast.op = "record_feedback" /\ loopLast.store_raises)
    => /\ Len(loop.feedback_history)
              = Len(loopLast.before.feedback_history) + 1
       /\ loop.engine_stats.correct + loop.engine_stats.incorrect
              = loopLast.before.engine_stats.correct
                    + loopLast.before.engine_stats.incorrect + 1

\* C11: with the feedback store configured, a classify that has computed its
\* answer returns it although the write of the prediction record fails: on a
\* corpus with documents and no learned example, classify returns
C11_ClassifyAbsorbsStoreFailure ==
    (/\ last.op = "classify"
     /\ corpus.ndocs > 0
     /\ \A s \in Sides : /\ eng[s].feedback_loop.use_database
                         /\ eng[s].feedback_documents = <<>>)
    => \A s \in Sides : last[s].ok

\* C12: every teach(q, d) records exactly one correction (q, predicted, d)
\* with is_correct = (predicted = d) and appends exactly one pair (q, d) to
\* the learned examples: after a teach the newest correction and the newest
\* pair are those of the call, and there are as many corrections as pairs
C12_TeachRecordsOneCorrection ==
    last.op = "teach"
    => \A s \in Sides :
           LET history == eng[s].feedback_loop.feedback_history
               documents == eng[s].feedback_documents
               paths == eng[s].feedback_paths
           IN  /\ Len(history) = Len(documents)
               /\ Len(paths) = Len(documents)
               /\ Len(documents) > 0
               /\ documents[Len(documents)] = last.query
               /\ paths[Len(paths)] = last.doc
               /\ history[Len(history)].query = last.query
               /\ history[Len(history)].actual_doc = last.doc
               /\ history[Len(history)].predicted_doc = last[s].doc
               /\ history[Len(history)].is_correct = (last[s].doc = last.doc)

\* the best_doc_count of the QueryPattern the loop fl holds for the
\* normalised query nq: the pattern of the store when the loop is backed by
\* one, else the pattern in memory
PatternCount(fl, nq) ==
    IF fl.use_database THEN MongoGetBestDocumentForQuery(fl.db, nq).count
    ELSE fl.query_patterns[nq].best_doc_count

\* C13: get_best_document_for_query(q) answers exactly when the QueryPattern
\* of the normalised q has best_doc_count >= 2, and then with the confidence
\* min(100, 95 + min(5, best_doc_count)); otherwise it answers nothing
C13_BestDocumentIffPatternCount ==
    \A q \in RawQueries :
        LET count == PatternCount(loop, NormalizeQuery(q))
            result == GetBestDocumentForQuery(loop, q)
        IN  /\ result.found <=> count >= 2
            /\ result.found =>
                   result.confidence
                       = Min(100, 95 + Min(5, count)) * ConfUnit

\* C14: once the two newest corrections are both of the same (q, d) with
\* predicted = actual = d, get_best_document_for_query(q) answers d with
\* confidence >= 97, whatever was recorded before them
C14_TwoCorrectCorrectionsTrigger ==
    LET history == loop.feedback_history
        n == Len(history)
    IN  (/\ n >= 2
         /\ history[n].is_correct /\ history[n - 1].is_correct
         /\ history[n].actual_doc = history[n - 1].actual_doc
         /\ NormalizeQuery(history[n].query)
                = NormalizeQuery(history[n - 1].query))
        => LET result == GetBestDocumentForQuery(loop, history[n].query)
           IN  /\ result.found
               /\ result.doc = history[n].actual_doc
               /\ result.confidence >= 97 * ConfUnit

\* the corrections counted for the pair key in the loop fl
Counted(fl, key) ==
    fl.query_doc_stats[key].correct + fl.query_doc_stats[key].incorrect

\* C15: a recorded correction (q, predicted, actual) is counted in the
\* QueryDocStats entry of (normalised q, actual), in memory and, when the
\* loop is backed by the store, in the store's entry of the same pair
C15_CorrectionUpdatesActualEntries ==
    (loopLast.op = "record_feedback" /\ loopLast.ok)
    => LET nq == NormalizeQuery(loopLast.query)
           key == <<nq, loopLast.actual_doc>>
       IN  /\ Counted(loop, key) = Counted(loopLast.before, key) + 1
           /\ loop.use_database
                  => \E x \in loop.db.query_doc_stats :
                         /\ x.query_normalized = nq
                         /\ x.doc_path = PyStr(<<loopLast.actual_doc>>)

\* the aggregates the loop fl holds in memory
Aggregates(fl) ==
    [query_doc_stats |-> fl.query_doc_stats, doc_stats |-> fl.doc_stats,
     engine_stats |-> fl.engine_stats, query_patterns |-> fl.query_patterns]

\* C16: a completed record_prediction leaves QueryDocStats, DocumentStats,
\* EngineStats and QueryPattern as they were before the call
C16_PredictionKeepsAggregates ==
    (loopLast.op = "record_prediction" /\ loopLast.ok)
    => Aggregates(loop) = Aggregates(loopLast.before)

\* the loop obtained by applying record_feedback, from a new in-memory loop,
\* to each CorrectionRecord of the history in order
RECURSIVE Replay(_)
Replay(history) ==
    IF history = <<>> THEN InitLoop(FALSE)
    ELSE LET h == history[Len(history)]
         IN  RecordFeedback(Replay(SubSeq(history, 1, Len(history) - 1)), h.query, h.predicted_doc, h.actual_doc, h.original_confidence, FALSE).fl

\* C17: after any sequence of classify and teach calls the aggregates an
\* engine's feedback loop holds are those recomputed from its recorded
\* corrections alone
C17_AggregatesFromCorrections ==
    \A s \in Sides :
        Aggregates(eng[s].feedback_loop)
            = Aggregates(Replay(eng[s].feedback_loop.feedback_history))

\* every concurrent teach call has returned
AllTaught == \A t \in Threads : conc.th[t].pc = "done"

\* C18: when n concurrent teach calls have all completed, the engine has
\* counted n corrections, the history holds n entries and the learned lists
\* hold the n (query, doc) pairs of the calls, aligned
C18_ConcurrentTeachLosesNothing ==
    (conc.th # <<>> /\ AllTaught)
    => /\ loop.engine_stats.correct + loop.engine_stats.incorrect = NTeach
       /\ Len(loop.feedback_history) = NTeach
       /\ Len(conc.feedback_documents) = NTeach
       /\ Len(conc.feedback_paths) = NTeach
       /\ \E p \in [Threads -> Threads] :
              /\ \A i, j \in Threads : p[i] = p[j] => i = j
              /\ \A i \in Threads :
                     /\ conc.feedback_documents[i] = conc.th[p[i]].error_text
                     /\ conc.feedback_paths[i] = conc.th[p[i]].correct_doc_path

\* the paths whose document has a persisted vector of the type
PersistedPaths(st, vector_type) ==
    {d.doc_path : d \in {x \in SeqToSet(st.documents_col) :
        \E v \in SeqToSet(st.vectors_col) :
            v.document_id = IdStr(x._id) /\ v.vector_type = vector_type}}

\* C19: needs_reindex(current_paths, type) is true exactly when the set of
\* paths with a persisted vector of the type differs from current_paths
C19_NeedsReindexIffPathSetsDiffer ==
    NeedsReindex(ix.store, Glob(ix.files), "tfidf")
        <=> PersistedPaths(ix.store, "tfidf") # SeqToSet(Glob(ix.files))

\* C20: when index() runs again after a completed index() over the same
\* files, the store asks for no reindex and the engine holds the same
\* in-memory state as after the first
C20_ReindexIdempotent ==
    (/\ ix.op \in {"index", "restart"}
     /\ ~ix.before.raised
     /\ ix.before.files = ix.files)
    => /\ ~ix.raised
       /\ ix.engine = ix.before.engine
       /\ ix.use_vector_store => ~NeedsReindex(ix.store, Glob(ix.files), "tfidf")

\* the files the engine reads a text from, in glob order
Readable(files) == SelectSeq(Glob(files), LAMBDA p : files[p] # "")

\* the texts of the readable files, in glob order
CurrentDocuments(files) ==
    [i \in 1..Len(Readable(files)) |-> files[Readable(files)[i]]]

\* the vector of the type persisted for the path, as a set
PersistedVector(st, doc_path, vector_type) ==
    {v.vector : v \in {x \in SeqToSet(st.vectors_col) :
                          /\ x.document_id = IdStr(ObjectId(doc_path))
                          /\ x.vector_type = vector_type}}

\* C21: when the content of a file changed since the last index() and the
\* set of paths did not, the next index() fits the TF-IDF matrix on the new
\* contents and persists the new vectors
C21_ContentChangeRevectorises ==
    (/\ ix.op \in {"index", "restart"}
     /\ ix.use_vector_store
     /\ ~ix.before.raised
     /\ ix.before.files # ix.files
     /\ SeqToSet(Glob(ix.before.files)) = SeqToSet(Glob(ix.files))
     /\ Readable(ix.files) # <<>>)
    => /\ ~ix.raised
       /\ ix.engine.tfidf_matrix = FitTransform(CurrentDocuments(ix.files))
       /\ \A i \in 1..Len(Readable(ix.files)) :
              PersistedVector(ix.store, Readable(ix.files)[i], "tfidf")
                  = {SerializeVector(FitTransform(CurrentDocuments(ix.files))[i])}

\* C22: the store returns no vector whose dimension differs from the length
\* of the vocabulary it holds for the type
C22_WrongDimensionRejected ==
    \A p \in Paths :
        LET vector == GetVector(ix.store, p, "tfidf")
        IN  vector.found
                => vector.array.shape[2] = Cardinality(ix.store.vocabulary_col)

\* the last call on the stand-alone cache changed neither the cache nor the
\* entries the server holds
CacheUnchanged ==
    redis.c = redis.before.c /\ redis.srv.db = redis.before.srv.db

\* the cache was disabled, or its server away, when the last call was made
Degraded == Unreached(redis.before.c, redis.before.srv)

\* C23 as stated: on a cache that is disabled or whose server is away, no
\* call raises, get misses, the other calls change nothing and get_stats
\* reports enabled = false with hits = 0 and misses = 0
C23_DegradedCacheReportsDisabled ==
    /\ ~redis.raised
    /\ (redis.op = "get" /\ Degraded) => redis.result = Missing /\ CacheUnchanged
    /\ (redis.op \in {"set", "delete", "invalidate_on_doc_change", "clear_all", "close"} /\ Degraded)
           => CacheUnchanged
    /\ (redis.op = "get_stats" /\ Degraded)
           => redis.result = [enabled |-> FALSE, hits |-> 0, misses |-> 0]

\* C23, amended: on a cache that is disabled or whose server is away, no
\* call raises, get misses and the other calls change nothing; get_stats
\* reports enabled = false with hits = 0 and misses = 0 on a cache that was
\* disabled when it was constructed
C23_CacheDegradesToNoOp ==
    /\ ~redis.raised
    /\ (redis.op = "get" /\ Degraded) => redis.result = Missing /\ CacheUnchanged
    /\ (redis.op \in {"set", "delete", "invalidate_on_doc_change", "clear_all", "close"} /\ Degraded)
           => CacheUnchanged
    /\ (redis.op = "get_stats" /\ ~redis.before.c.enabled)
           => redis.result = [enabled |-> FALSE, hits |-> 0, misses |-> 0]

\* a set was made on a connected cache whose server had gone away, with an
\* entry stored before
C23_Witness ==
    /\ redis.op = "set"
    /\ redis.before.c.enabled
    /\ ~redis.before.srv.up
    /\ \E k \in CacheKeys : redis.srv.db[k] # Missing

\* the characters of a hexadecimal digest
HexDigits == {"0", "1", "2", "3", "4", "5", "6", "7", "8", "9", "a", "b", "c", "d", "e", "f"}

\* the extra parameters the calls of the model pass
Kwargs == {NoKwargs, MethodKwargs}

\* C24: a cache key depends on the prefix, the normalised query and the
\* extra parameters only: the key of a get or set is the key of another
\* call exactly when the two calls have the same prefix, the same extra
\* parameters and queries of the same normalised form (two queries that
\* differ in letter case and in blanks get the same key), the key is its
\* prefix and 16 hexadecimal characters, and a get answers what the server
\* holds for every query of the same normalised form
C24_KeyOfNormalisedQuery ==
    redis.op \in {"get", "set"}
    => LET key == GenerateKeyWith(redis.args[1], redis.args[2], redis.args[3])
       IN  /\ \A p2 \in Prefixes, q2 \in KeyQueries, k2 \in Kwargs :
                  (key = GenerateKeyWith(p2, q2, k2))
                      <=> /\ redis.args[1] = p2
                          /\ NormalizeQuery(redis.args[2]) = NormalizeQuery(q2)
                          /\ redis.args[3] = k2
           /\ key.prefix = redis.args[1]
           /\ Len(key.key_hash) = 16
           /\ \A i \in 1..Len(key.key_hash) : key.key_hash[i] \in HexDigits
           /\ (redis.op = "get" /\ ~Unreached(redis.before.c, redis.before.srv))
                  => \A q2 \in KeyQueries :
                         NormalizeQuery(q2) = NormalizeQuery(redis.args[2])
                             => redis.result = redis.before.srv.db[GenerateKeyWith(redis.args[1], q2, redis.args[3])]

\* a get of '  schema   now  ' hits the entry that the call before it set
\* under 'Schema  now'
C24_Witness ==
    /\ redis.op = "get"
    /\ redis.n = 2
    /\ redis.args = <<"search", <<"", "schema", "now", "">>, MethodKwargs>>
    /\ redis.before.args = <<"search", qA, MethodKwargs>>
    /\ redis.result = "v1"

\* C25: SimilaritySearch.search with the cosine metric returns the rows in
\* descending score order and, of rows with exactly equal scores, the lower
\* row index first
C25_SearchDescendingLowerIndexFirst ==
    fuseOut # <<>>
    => LET results == Search(fuseIn.cosine, Len(fuseIn.cosine))
       IN  \A r \in 1..(Len(results) - 1) :
               \/ results[r].score > results[r + 1].score
               \/ /\ results[r].score = results[r + 1].score
                  /\ results[r].idx < results[r + 1].idx

\* C26: no teach call makes classify unavailable: on a non-empty corpus,
\* with the feedback loop in memory, every classify returns a result,
\* whatever was taught before it
C26_TeachKeepsClassifyAvailable ==
    (/\ last.op = "classify"
     /\ corpus.ndocs > 0
     /\ ~eng.c.feedback_loop.use_database
     /\ ~eng.n.feedback_loop.use_database)
    => (last.c.ok /\ last.n.ok)

\* C27: after _index_documents has completed, documents, doc_paths,
\* doc_metadata, the rows of the TF-IDF matrix and the BM25 corpus have the
\* same length, and position i is the same document in each of them
C27_IndexAligned ==
    (ix.op \in {"construct", "index", "restart"} /\ ~ix.raised)
    => LET e == ix.engine
       IN  /\ Len(e.doc_paths) = Len(e.documents)
           /\ Len(e.doc_metadata) = Len(e.documents)
           /\ e.corpus_size = Len(e.documents)
           /\ \A i \in 1..Len(e.documents) :
                  (i <= Len(e.doc_paths) /\ i <= Len(e.doc_metadata))
                      => e.doc_metadata[i] = ExtractMetadata(e.doc_paths[i])
           /\ Len(e.documents) > 0
                  => /\ Len(e.tfidf_matrix) = Len(e.documents)
                     /\ \A i \in 1..Len(e.documents) :
                            e.tfidf_matrix[i].fit[e.tfidf_matrix[i].row] = e.documents[i]

\* the QueryPattern the engine s holds in memory for the normalised query nq
PatternOf(s, nq) == eng[s].feedback_loop.query_patterns[nq]

\* C28: the learned shortcut is permanent: once the in-memory QueryPattern
\* of q has best_doc = d with best_doc_count >= 2, no classify and no teach
\* changes best_doc or lowers best_doc_count, and without the cache every
\* later classify(q) returns d
C28_ShortcutPermanent ==
    [][\A s \in {"c", "n"}, nq \in NormQueries :
           (/\ PatternOf(s, nq).best_doc # None
            /\ PatternOf(s, nq).best_doc_count >= 2
            /\ last'.op \in {"classify", "teach"})
           => /\ PatternOf(s, nq)'.best_doc = PatternOf(s, nq).best_doc
              /\ PatternOf(s, nq)'.best_doc_count >= PatternOf(s, nq).best_doc_count
              /\ (s = "n" /\ last'.op = "classify" /\ NormalizeQuery(last'.query) = nq)
                     => (last'.n.ok /\ last'.n.doc = PatternOf(s, nq).best_doc)]_vars

\* a teach of another document than best_doc has returned on a pattern
\* that held best_doc_count >= 2, and the pattern is as it was
C28_Witness ==
    /\ last.op = "teach"
    /\ last.n.ok
    /\ PatternOf("n", NormalizeQuery(last.query)).best_doc \notin {None, last.doc}
    /\ PatternOf("n", NormalizeQuery(last.query)).best_doc_count >= 2

\* the stored data hold the vector v, up to the precision of float32
Holds(data, v) == data.fit = v.fit /\ data.row = v.row

\* C29: a vector saved for a saved document comes back: after save_document
\* and save_vectors_batch of an index, get_vector(p, t) returns the vector
\* of p and get_all_vectors(t) returns p paired with it, one row per saved
\* document
C29_VectorRoundTrip ==
    (/\ ix.op \in {"construct", "restart"}
     /\ ix.use_vector_store
     /\ ~ix.raised
     /\ ix.engine.documents # <<>>)
    => LET e == ix.engine
           all == GetAllVectors(ix.store, "tfidf")
       IN  /\ Len(all.doc_paths) = Len(e.doc_paths)
           /\ \A i \in 1..Len(e.doc_paths) :
                  /\ GetVector(ix.store, e.doc_paths[i], "tfidf").found
                  /\ Holds(GetVector(ix.store, e.doc_paths[i], "tfidf").array.data,
                           e.tfidf_matrix[i])
                  /\ \E j \in 1..Len(all.doc_paths) :
                         /\ all.doc_paths[j] = e.doc_paths[i]
                         /\ Holds(all.vectors_matrix[j], e.tfidf_matrix[i])

\* the counters of the in-memory loop fl are within their totals
WithinTotals(fl) ==
    /\ \A k \in QDKeys :
           fl.query_doc_stats[k].correct + fl.query_doc_stats[k].incorrect
               <= fl.query_doc_stats[k].total
    /\ \A d \in Docs : fl.doc_stats[d].times_correct <= fl.doc_stats[d].times_shown
    /\ fl.engine_stats.correct + fl.engine_stats.incorrect <= fl.engine_stats.predictions

\* no counter of the loop is lower in g than in f
NotLower(f, g) ==
    /\ \A k \in QDKeys :
           /\ g.query_doc_stats[k].total >= f.query_doc_stats[k].total
           /\ g.query_doc_stats[k].correct >= f.query_doc_stats[k].correct
           /\ g.query_doc_stats[k].incorrect >= f.query_doc_stats[k].incorrect
    /\ \A d \in Docs :
           /\ g.doc_stats[d].times_shown >= f.doc_stats[d].times_shown
           /\ g.doc_stats[d].times_correct >= f.doc_stats[d].times_correct
    /\ \A nq \in NormQueries :
           /\ g.query_patterns[nq].count >= f.query_patterns[nq].count
           /\ g.query_patterns[nq].best_doc_count >= f.query_patterns[nq].best_doc_count
    /\ g.engine_stats.predictions >= f.engine_stats.predictions
    /\ g.engine_stats.correct >= f.engine_stats.correct
    /\ g.engine_stats.incorrect >= f.engine_stats.incorrect

\* C30: after any sequence of classify and teach calls on an engine with
\* the feedback loop in memory, no counter has gone down, correct +
\* incorrect <= total for every (query, doc), times_correct <= times_shown
\* for every document, and correct + incorrect <= predictions for the engine
C30_CountersOrdered ==
    [][\A s \in {"c", "n"} :
           (~eng[s].feedback_loop.use_database /\ last'.op \in {"classify", "teach"})
           => /\ WithinTotals(eng[s].feedback_loop')
              /\ NotLower(eng[s].feedback_loop, eng[s].feedback_loop')]_vars

\* a teach has recorded its feedback after a classify of the same pair: a
\* pair with total = 2 and correct + incorrect = 1
C30_Witness ==
    /\ last.op = "teach"
    /\ ~eng.n.feedback_loop.use_database
    /\ \E k \in QDKeys :
           /\ eng.n.feedback_loop.query_doc_stats[k].total = 2
           /\ eng.n.feedback_loop.query_doc_stats[k].correct
                  + eng.n.feedback_loop.query_doc_stats[k].incorrect = 1

=============================================================================
